---- MODULE Spec2Model ----
(***************************************************************************)
(* EXT_bmesh_encoding codec of the VRM add-on: BmeshEncoder (encoding.py)  *)
(* and BmeshDecoder (decoding.py).                                         *)
(*                                                                         *)
(* A BMesh is [verts, edges, faces]: verts is the sequence of vertex       *)
(* positions, edges the sequence of vertex-index pairs, faces the sequence *)
(* of vertex-index sequences (winding order).  Indices are the 0-based     *)
(* indices of the Python code; element i of a Python list is element i+1   *)
(* of the TLA+ sequence.  Positions lie on an integer lattice, so that a   *)
(* float32 holds every coordinate exactly and a length or an area below    *)
(* 1e-8 is a length or an area of exactly 0.                               *)
(***************************************************************************)
EXTENDS Integers, Sequences, FiniteSets, TLC

\* Bounds of the mesh sources the model enumerates.
MaxVerts == 4
MaxFaces == 3
\* Bound of the encode/decode cycles a mesh is taken through.
MaxCycles == 1
\* Bound of the number of faces of a mesh handed to the triangle fan.
MaxFanFaces == 2
\* Bound of the number of faces of a mesh that carries UV layers.
MaxUVFaces == 2
\* Bound of the number of faces of the meshes of the longer scenarios.
MaxSmallFaces == 1
\* Bound of the number of polygons handed to the implicit triangle fan.
MaxPolygons == 2
\* Bound of the number of calls made on the preprocessor.
MaxPreprocessorCalls == 2

VARIABLES
    pc,       \* where the caller is: "src", "encoded", "decoded", "done", "fan",
              \* "calls", "polygons", "triangles", "faces", "preprocessor"
    bm,       \* the source BMesh
    enc,      \* the encoded extension data handed to the decoder
    tamper,   \* what was changed in enc after the encoder returned it
    dec,      \* what _decode_encoded_data_to_bmesh did
    prior,    \* the target mesh before decode_into_mesh
    mesh,     \* the target mesh after decode_into_mesh
    ret,      \* what decode_into_mesh returned
    applied,  \* apply_bmesh_to_blender_mesh: "not_run", "ok", "failed"
    cycle,    \* the number of encode/decode cycles behind the source mesh
    fan,      \* what encode_triangle_fan_implicit returned
    preserve_manifold_info,  \* the encoder's attribute of that name
    calls,    \* the two calls in progress: operation, input, step, result
    frames,   \* the local variables of the calls in progress
    gltf,     \* json_dict["bufferViews"] and buffer0 of the glTF under export
    again,    \* the second encode and decode of the same mesh
    implicit, \* polygons, their fan and what decode_implicit_triangle_fan returned
    preprocessor  \* BmeshEncodingPreprocessor: its class-level store and its last call

vars == <<pc, bm, enc, tamper, dec, prior, mesh, ret, applied, cycle, fan,
         preserve_manifold_info, calls, frames, gltf, again,
         implicit,
         preprocessor>>

\* ------------------------------------------------------------------------
\* Python values

\* None, and the empty dict {}
None == [none |-> TRUE]
EmptyDict == <<>>

Min(a, b) == IF a < b THEN a ELSE b

RECURSIVE Pow2(_)
Pow2(n) == IF n <= 0 THEN 1 ELSE 2 * Pow2(n - 1)

RECURSIVE Log2(_)
Log2(n) == IF n <= 1 THEN 0 ELSE 1 + Log2(n \div 2)

RECURSIVE Concat(_)
Concat(ss) == IF ss = <<>> THEN <<>> ELSE Head(ss) \o Concat(Tail(ss))

\* a slice that takes the element at b as well
SliceInclusive(s, a, b) == SubSeq(s, a + 1, Min(b + 1, Len(s)))

\* seq[a:b] of Python for 0 <= a, 0 <= b: clamped to the sequence
Slice(s, a, b) == SubSeq(s, a + 1, Min(b, Len(s)))

\* ------------------------------------------------------------------------
\* Binary primitive layer: struct.Struct("<I"), ("<B"), ("<f"), little-endian

PackU32(n) ==
    <<n % 256, (n \div 256) % 256, (n \div 65536) % 256, (n \div 16777216) % 256>>

\* a byte packed into two
PackU8Padded(n) == <<n % 256, 0>>

PackU8(n) == <<n % 256>>

\* IEEE-754 single of an integer of magnitude below 2^24: sign bit, biased
\* exponent, 23-bit fraction, laid out in 4 little-endian bytes.
PackF32(x) ==
    LET a    == IF x < 0 THEN -x ELSE x
        sign == IF x < 0 THEN 1 ELSE 0
        e    == Log2(a)
        expo == IF a = 0 THEN 0 ELSE 127 + e
        frac == IF a = 0 THEN 0 ELSE (a - Pow2(e)) * Pow2(23 - e)
    IN  <<frac % 256,
          (frac \div 256) % 256,
          (expo % 2) * 128 + (frac \div 65536),
          sign * 128 + (expo \div 2)>>

U32At(data, k) ==
    data[4*k + 1] + 256 * data[4*k + 2] + 65536 * data[4*k + 3]
        + 16777216 * data[4*k + 4]

F32At(data, k) ==
    LET b0   == data[4*k + 1]
        b1   == data[4*k + 2]
        b2   == data[4*k + 3]
        b3   == data[4*k + 4]
        sign == b3 \div 128
        expo == (b3 % 128) * 2 + (b2 \div 128)
        frac == (b2 % 128) * 65536 + b1 * 256 + b0
        mag  == IF expo = 0 THEN 0
                ELSE IF expo - 127 >= 23
                     THEN (8388608 + frac) * Pow2(expo - 150)
                     ELSE (8388608 + frac) \div Pow2(150 - expo)
    IN  IF sign = 1 THEN -mag ELSE mag

\* struct.unpack(f"<{n}I", data): raises struct.error unless len(data) == 4n
UnpackU32(n, data) ==
    IF Len(data) # 4 * n
    THEN [raised |-> TRUE, vals |-> <<>>]
    ELSE [raised |-> FALSE, vals |-> [k \in 1..n |-> U32At(data, k - 1)]]

\* an unpack that takes the floats a short buffer holds instead of raising
UnpackF32Lenient(n, data) ==
    LET m == Min(n, Len(data) \div 4)
    IN  [raised |-> FALSE, vals |-> [k \in 1..m |-> F32At(data, k - 1)]]

\* struct.unpack(f"<{n}f", data)
UnpackF32(n, data) ==
    IF Len(data) # 4 * n
    THEN [raised |-> TRUE, vals |-> <<>>]
    ELSE [raised |-> FALSE, vals |-> [k \in 1..n |-> F32At(data, k - 1)]]

\* ------------------------------------------------------------------------
\* BMesh queries (bmesh.types)

SamePair(e, a, b) == (e[1] = a /\ e[2] = b) \/ (e[1] = b /\ e[2] = a)

\* the vertex pairs of the boundary of a face, in loop order: loop i of the
\* face runs from vertex i to vertex (i + 1) % n
FaceEdgePair(f, i) == <<f[i + 1], f[((i + 1) % Len(f)) + 1]>>

\* the 0-based index in edges of the edge on {a, b}, or -1
EdgeIndex(edges, a, b) ==
    IF \E k \in 1..Len(edges) : SamePair(edges[k], a, b)
    THEN (CHOOSE k \in 1..Len(edges) :
              /\ SamePair(edges[k], a, b)
              /\ \A j \in 1..(k - 1) : ~SamePair(edges[j], a, b)) - 1
    ELSE -1

FaceHasEdge(f, e) ==
    \E i \in 0..(Len(f) - 1) :
        SamePair(e, FaceEdgePair(f, i)[1], FaceEdgePair(f, i)[2])

\* edge.link_faces: the 0-based indices of the faces the edge bounds
LinkFaces(b, e) ==
    SelectSeq([k \in 1..Len(b.faces) |-> k - 1],
              LAMBDA k : FaceHasEdge(b.faces[k + 1], e))

\* vert.link_edges: the 0-based indices of the edges at vertex v
LinkEdges(b, v) ==
    SelectSeq([k \in 1..Len(b.edges) |-> k - 1],
              LAMBDA k : b.edges[k + 1][1] = v \/ b.edges[k + 1][2] = v)

\* the edges bm.faces.new(face) adds: the boundary pairs of the face
\* that have no edge yet, in loop order
RECURSIVE AddFaceEdges(_, _, _)
AddFaceEdges(edges, f, i) ==
    IF i >= Len(f) THEN edges
    ELSE LET pr == FaceEdgePair(f, i)
         IN  AddFaceEdges(
                 IF EdgeIndex(edges, pr[1], pr[2]) >= 0 THEN edges
                 ELSE Append(edges, pr),
                 f, i + 1)

\* face.normal on the lattice plane z = 0: the sign of the signed area
RECURSIVE Shoelace(_, _, _)
Shoelace(b, f, i) ==
    IF i >= Len(f) THEN 0
    ELSE LET p == b.verts[FaceEdgePair(f, i)[1] + 1]
             q == b.verts[FaceEdgePair(f, i)[2] + 1]
         IN  (p[1] * q[2] - q[1] * p[2]) + Shoelace(b, f, i + 1)

FaceNormal(b, f) ==
    LET a == Shoelace(b, f, 0)
    IN  <<0, 0, IF a > 0 THEN 1 ELSE IF a < 0 THEN -1 ELSE 0>>

\* the global loop index of loop i of face fi: loops are numbered face by face
RECURSIVE LoopBase(_, _)
LoopBase(faces, fi) ==
    IF fi = 0 THEN 0 ELSE Len(faces[fi]) + LoopBase(faces, fi - 1)

\* ------------------------------------------------------------------------
\* BmeshEncoder

Attr(data, target, componentType, type) ==
    [data |-> data, target |-> target, componentType |-> componentType,
     type |-> type]

AttrN(data, target, componentType, type, count) ==
    [data |-> data, target |-> target, componentType |-> componentType,
     type |-> type, count |-> count]

\* a dict entry that is only added when its buffer is not empty
Optional(key, buffer, attr) == IF buffer = <<>> THEN EmptyDict ELSE key :> attr

EncodeVertices(b) ==
    IF Len(b.verts) = 0 THEN EmptyDict
    ELSE
    LET positions_buffer ==
            Concat([i \in 1..Len(b.verts) |->
                PackF32(b.verts[i][1]) \o PackF32(b.verts[i][2])
                    \o PackF32(b.verts[i][3])])
        edges_buffer ==
            Concat([i \in 1..Len(b.verts) |->
                LET le == LinkEdges(b, i - 1)
                IN  Concat([k \in 1..Len(le) |-> PackU32(le[k])])])
    IN  [count |-> Len(b.verts),
         positions |-> AttrN(positions_buffer, "ARRAY_BUFFER", 5126, "VEC3",
                             Len(b.verts))]
        @@ Optional("edges", edges_buffer,
                    Attr(edges_buffer, "ARRAY_BUFFER", 5125, "SCALAR"))

\* a status computed whatever preserve_manifold_info says
ManifoldAlwaysComputed(b, e, preserve) ==
    IF Len(LinkFaces(b, e)) = 2 THEN "True" ELSE "False"

\* a status that takes every edge of two or more faces for manifold
ManifoldAtLeastTwo(b, e, preserve) ==
    IF ~preserve THEN "None"
    ELSE IF Len(LinkFaces(b, e)) >= 2 THEN "True" ELSE "False"

\* _calculate_edge_manifold_status: "True", "False" or "None" (unknown)
CalculateEdgeManifoldStatus(b, e, preserve) ==
    IF ~preserve THEN "None"
    ELSE IF Len(LinkFaces(b, e)) = 2 THEN "True" ELSE "False"

ManifoldByte(status) ==
    IF status = "True" THEN 1 ELSE IF status = "False" THEN 0 ELSE 255

EncodeEdges(b, preserve) ==
    IF Len(b.edges) = 0 THEN EmptyDict
    ELSE
    LET vertices_buffer ==
            Concat([i \in 1..Len(b.edges) |->
                PackU32(b.edges[i][1]) \o PackU32(b.edges[i][2])])
        faces_buffer ==
            Concat([i \in 1..Len(b.edges) |->
                LET lf == LinkFaces(b, b.edges[i])
                IN  Concat([k \in 1..Len(lf) |-> PackU32(lf[k])])])
        manifold_buffer ==
            Concat([i \in 1..Len(b.edges) |->
                PackU8(ManifoldByte(
                    CalculateEdgeManifoldStatus(b, b.edges[i], preserve)))])
    IN  [count |-> Len(b.edges),
         vertices |-> AttrN(vertices_buffer, "ELEMENT_ARRAY_BUFFER", 5125,
                            "VEC2", Len(b.edges))]
        @@ Optional("faces", faces_buffer,
                    Attr(faces_buffer, "ARRAY_BUFFER", 5125, "SCALAR"))
        @@ Optional("manifold", manifold_buffer,
                    AttrN(manifold_buffer, "ARRAY_BUFFER", 5121, "SCALAR",
                          Len(b.edges)))

\* radial links that always point at the loop itself
RadialSelfOnly(b, fi, i, cur) == <<cur, cur>>

\* the radial (next, prev) pair of loop i of face fi, whose global index is cur.
\* link_faces is taken in face order.
FindRadialLoopIndices(b, fi, i, cur) ==
    LET f            == b.faces[fi + 1]
        pr           == FaceEdgePair(f, i)
        linked_faces == LinkFaces(b, pr)
        other_faces  == SelectSeq(linked_faces, LAMBDA k : k # fi)
    IN  IF Len(linked_faces) <= 1 THEN <<cur, cur>>
        ELSE IF other_faces = <<>> THEN <<cur, cur>>
        ELSE LET of   == other_faces[1]
                 g    == b.faces[of + 1]
                 hits == {j \in 0..(Len(g) - 1) :
                             SamePair(pr, FaceEdgePair(g, j)[1],
                                      FaceEdgePair(g, j)[2])}
             IN  IF hits = {} THEN <<cur, cur>>
                 ELSE LET j == CHOOSE x \in hits : \A y \in hits : x <= y
                          idx == LoopBase(b.faces, of) + j
                      IN  <<idx, idx>>

\* bm.loops.layers.uv: each layer holds the (u, v) of every loop, in the
\* global loop order
UVLayers(b) == IF "uv" \in DOMAIN b THEN b.uv ELSE <<>>

\* f"TEXCOORD_{i}" for layer i + 1
TexcoordNames == <<"TEXCOORD_0", "TEXCOORD_1", "TEXCOORD_2">>

\* result["attributes"] of _encode_loops_to_buffers
EncodeUVAttributes(b, loop_count) ==
    LET layers == UVLayers(b)
    IN  [name \in {TexcoordNames[l] : l \in 1..Len(layers)} |->
            LET l == CHOOSE x \in 1..Len(layers) : TexcoordNames[x] = name
                uv_buffer ==
                    Concat([g \in 1..loop_count |->
                        PackF32(layers[l][g][1]) \o PackF32(layers[l][g][2])])
            IN  AttrN(uv_buffer, "ARRAY_BUFFER", 5126, "VEC2", loop_count)]

\* a next corner that stops at the last corner of the face
NextInFaceClamped(i, n) == Min(i + 1, n - 1)

\* next_in_face and prev_in_face of corner i of a face of n loops
\* a next index that never wraps
NextInFaceUnwrapped(i, n) == i + 1

NextInFace(i, n) == (i + 1) % n
PrevInFace(i, n) == (i + n - 1) % n

EncodeLoops(b) ==
    LET loop_count == LoopBase(b.faces, Len(b.faces))
    IN  IF loop_count = 0 THEN EmptyDict
        ELSE
        LET topology_buffer ==
                Concat([fk \in 1..Len(b.faces) |->
                    LET f    == b.faces[fk]
                        n    == Len(f)
                        base == LoopBase(b.faces, fk - 1)
                    IN  Concat([ik \in 1..n |->
                            LET i   == ik - 1
                                pr  == FaceEdgePair(f, i)
                                rad == FindRadialLoopIndices(b, fk - 1, i,
                                                             base + i)
                            IN  PackU32(f[ik])
                                \o PackU32(EdgeIndex(b.edges, pr[1], pr[2]))
                                \o PackU32(fk - 1)
                                \o PackU32(base + NextInFace(i, n))
                                \o PackU32(base + PrevInFace(i, n))
                                \o PackU32(rad[1])
                                \o PackU32(rad[2])])])
        IN  [count |-> loop_count,
             topology |-> AttrN(topology_buffer, "ARRAY_BUFFER", 5125,
                                "SCALAR", loop_count * 7)]
            @@ (IF UVLayers(b) = <<>> THEN EmptyDict
                ELSE "attributes" :> EncodeUVAttributes(b, loop_count))

\* offsets that count from 1
OffsetsStartAtOne(faces) ==
    Concat([k \in 1..(Len(faces) + 1) |-> PackU32(LoopBase(faces, k - 1) + 1)])

\* the running vertices_offset recorded before each face and once after the
\* last
OffsetsBuffer(faces) ==
    Concat([k \in 1..(Len(faces) + 1) |-> PackU32(LoopBase(faces, k - 1))])

EncodeFaces(b) ==
    IF Len(b.faces) = 0 THEN EmptyDict
    ELSE
    LET vertices_buffer ==
            Concat([k \in 1..Len(b.faces) |->
                Concat([i \in 1..Len(b.faces[k]) |-> PackU32(b.faces[k][i])])])
        edges_buffer ==
            Concat([k \in 1..Len(b.faces) |->
                Concat([i \in 1..Len(b.faces[k]) |->
                    LET pr == FaceEdgePair(b.faces[k], i - 1)
                    IN  PackU32(EdgeIndex(b.edges, pr[1], pr[2]))])])
        loops_buffer ==
            Concat([k \in 1..Len(b.faces) |->
                Concat([i \in 1..Len(b.faces[k]) |->
                    PackU32(LoopBase(b.faces, k - 1) + i - 1)])])
        normals_buffer ==
            Concat([k \in 1..Len(b.faces) |->
                LET nrm == FaceNormal(b, b.faces[k])
                IN  PackF32(nrm[1]) \o PackF32(nrm[2]) \o PackF32(nrm[3])])
        offsets_buffer == OffsetsBuffer(b.faces)
    IN  [count |-> Len(b.faces),
         vertices |-> Attr(vertices_buffer, "ARRAY_BUFFER", 5125, "SCALAR"),
         offsets |-> AttrN(offsets_buffer, "ARRAY_BUFFER", 5125, "SCALAR",
                           Len(b.faces) + 1)]
        @@ Optional("edges", edges_buffer,
                    Attr(edges_buffer, "ARRAY_BUFFER", 5125, "SCALAR"))
        @@ Optional("loops", loops_buffer,
                    Attr(loops_buffer, "ARRAY_BUFFER", 5125, "SCALAR"))
        @@ Optional("normals", normals_buffer,
                    AttrN(normals_buffer, "ARRAY_BUFFER", 5126, "VEC3",
                          Len(b.faces)))

\* a section is stored only when it is not the empty dict
Section(key, data) == IF DOMAIN data = {} THEN EmptyDict ELSE key :> data

EncodeToBufferFormat(b, preserve) ==
    Section("vertices", EncodeVertices(b))
        @@ Section("edges", EncodeEdges(b, preserve))
        @@ Section("loops", EncodeLoops(b))
        @@ Section("faces", EncodeFaces(b))

\* an encoder without the early return for a mesh that has no face
EncodeWithoutFaces(b, preserve) == EncodeToBufferFormat(b, preserve)

\* encode_bmesh_to_gltf_extension
EncodeBmeshToGltfExtension(b, preserve) ==
    IF Len(b.faces) = 0 THEN EmptyDict ELSE EncodeToBufferFormat(b, preserve)

\* ------------------------------------------------------------------------
\* BmeshEncoder.create_buffer_views

\* a Python int, as distinct from a dict, a list and None
PyInt(i) == [int |-> i]

\* the attributes create_buffer_views looks at, in the order of its calls
\* of create_buffer_view
ViewPaths ==
    <<<<"vertices", "positions">>, <<"vertices", "edges">>,
      <<"vertices", "edgeOffsets">>,
      <<"edges", "vertices">>, <<"edges", "faces">>,
      <<"edges", "faceOffsets">>, <<"edges", "manifold">>,
      <<"loops", "topology">>,
      <<"loops", "attributes", "TEXCOORD_0">>,
      <<"loops", "attributes", "TEXCOORD_1">>,
      <<"loops", "attributes", "TEXCOORD_2">>,
      <<"faces", "vertices">>, <<"faces", "edges">>, <<"faces", "loops">>,
      <<"faces", "normals">>, <<"faces", "offsets">>>>

HasPath(d, path) ==
    /\ path[1] \in DOMAIN d
    /\ path[2] \in DOMAIN d[path[1]]
    /\ Len(path) = 3 => path[3] \in DOMAIN d[path[1]][path[2]]

AtPath(d, path) ==
    IF Len(path) = 3 THEN d[path[1]][path[2]][path[3]]
    ELSE d[path[1]][path[2]]

\* d with value stored at path
SetPath(d, path, value) ==
    IF Len(path) = 3
    THEN [d EXCEPT ![path[1]][path[2]] = (path[3] :> value) @@ @]
    ELSE [d EXCEPT ![path[1]] = (path[2] :> value) @@ @]

\* buffer0 left as it is
AlignNever(buffer0) == buffer0

\* buffer0 after `while len(buffer0) % 4: buffer0.append(0)`
AlignTo4(buffer0) ==
    buffer0 \o [j \in 1..((4 - (Len(buffer0) % 4)) % 4) |-> 0]

\* the inner create_buffer_view for the attribute at path, on the state st
\* = [bufferViews, buffer0, result_data]: None when the attribute has no
\* or empty data, else a new buffer view whose index is stored
CreateBufferView(st, extension_data, path) ==
    IF ~HasPath(extension_data, path) THEN st
    ELSE
    LET data_info == AtPath(extension_data, path)
    IN  IF "data" \notin DOMAIN data_info THEN st
        ELSE IF data_info.data = <<>> THEN st
        ELSE
        LET aligned == AlignTo4(st.buffer0)
            buffer_view_index == Len(st.bufferViews)
            buffer_view == [buffer |-> 0, byteOffset |-> Len(aligned),
                            byteLength |-> Len(data_info.data),
                            target |-> IF "target" \in DOMAIN data_info
                                       THEN data_info.target
                                       ELSE "ARRAY_BUFFER"]
        IN  [bufferViews |-> Append(st.bufferViews, buffer_view),
             buffer0 |-> aligned \o data_info.data,
             result_data |-> SetPath(st.result_data, path,
                                     PyInt(buffer_view_index))]

RECURSIVE CreateBufferViewsFrom(_, _, _)
CreateBufferViewsFrom(st, extension_data, i) ==
    IF i > Len(ViewPaths) THEN st
    ELSE CreateBufferViewsFrom(
             CreateBufferView(st, extension_data, ViewPaths[i]),
             extension_data, i + 1)

\* create_buffer_views(json_dict, buffer0, extension_data): the value
\* returned and what it leaves in json_dict["bufferViews"] and buffer0
CreateBufferViews(bufferViews, buffer0, extension_data) ==
    IF DOMAIN extension_data = {}
    THEN [bufferViews |-> bufferViews, buffer0 |-> buffer0,
          result_data |-> EmptyDict]
    ELSE CreateBufferViewsFrom(
             [bufferViews |-> bufferViews, buffer0 |-> buffer0,
              result_data |->
                  [key \in DOMAIN extension_data |->
                      [count |-> extension_data[key]["count"]]
                          @@ (IF "attributes" \in DOMAIN extension_data[key]
                              THEN "attributes" :> EmptyDict
                              ELSE EmptyDict)]],
             extension_data, 1)

\* the buffer resolver: the bytes of buffer0 that the buffer view of a
\* handle covers
Resolve(g, handle) ==
    LET view == g.bufferViews[handle.int + 1]
    IN  SubSeq(g.buffer0, view.byteOffset + 1,
               view.byteOffset + view.byteLength)

\* ------------------------------------------------------------------------
\* BmeshEncoder: the implicit triangle fan

VecSub(p, q) == <<p[1] - q[1], p[2] - q[2], p[3] - q[3]>>
VecCross(p, q) ==
    <<p[2] * q[3] - p[3] * q[2],
      p[3] * q[1] - p[1] * q[3],
      p[1] * q[2] - p[2] * q[1]>>
\* length < 1e-8 of a vector of integers
VecTiny(p) == p = <<0, 0, 0>>

\* getattr(face, 'material_index', 0) of face k (1-based)
MaterialIndex(b, k) ==
    IF "material_index" \in DOMAIN b THEN b.material_index[k] ELSE 0

\* loop.vert.co of corner i (0-based) of face k
LoopCo(b, k, i) == b.verts[b.faces[k][i + 1] + 1]

\* _validate_face_geometry of face k
ValidateFaceGeometry(b, k) ==
    LET f == b.faces[k]
    IN  IF Shoelace(b, f, 0) = 0 THEN FALSE
        ELSE IF VecTiny(FaceNormal(b, f)) THEN FALSE
        ELSE IF Cardinality({LoopCo(b, k, i) : i \in 0..(Len(f) - 1)}) < 3
             THEN FALSE
        ELSE TRUE

\* a validation that accepts every triangle
ValidateNothing(b, k, loops) == TRUE

\* _validate_triangle_geometry; loops: the three corners of face k that make
\* the triangle
ValidateTriangleGeometry(b, k, loops) ==
    LET v0 == LoopCo(b, k, loops[1])
        v1 == LoopCo(b, k, loops[2])
        v2 == LoopCo(b, k, loops[3])
    IN  IF VecTiny(VecSub(v0, v1)) \/ VecTiny(VecSub(v1, v2))
           \/ VecTiny(VecSub(v2, v0))
        THEN FALSE
        ELSE ~VecTiny(VecCross(VecSub(v1, v0), VecSub(v2, v0)))

\* an entry (material_index, triangle_loops) of the result; face and via
\* record the face it was made from and the branch that made it
FanTriangle(b, k, loops, via) ==
    [material |-> MaterialIndex(b, k), face |-> k, loops |-> loops,
     via |-> via]

\* a fan of consecutive corners, which leaves the anchor after one triangle
CreateTriangleStrip(b, k, anchor_index) ==
    LET n == Len(b.faces[k])
    IN  [i \in 1..(n - 2) |->
            [material |-> MaterialIndex(b, k), face |-> k,
             loops |-> <<(anchor_index + i - 1) % n, (anchor_index + i) % n,
                         (anchor_index + i + 1) % n>>,
             via |-> "robust"]]

\* _create_robust_triangle_fan when _select_optimal_anchor_loop returns the
\* loop at anchor_index
CreateRobustTriangleFan(b, k, anchor_index) ==
    LET n == Len(b.faces[k])
        candidates ==
            [i \in 1..(n - 2) |->
                <<anchor_index, (anchor_index + i) % n,
                  (anchor_index + i + 1) % n>>]
        kept == SelectSeq(candidates,
                    LAMBDA loops : ValidateTriangleGeometry(b, k, loops))
    IN  IF ~ValidateFaceGeometry(b, k) THEN <<>>
        ELSE [j \in 1..Len(kept) |-> FanTriangle(b, k, kept[j], "robust")]

\* a fallback that emits nothing
CreateNoFan(b, k) == <<>>

CreateSimpleTriangleFan(b, k) ==
    [j \in 1..(Len(b.faces[k]) - 2) |->
        FanTriangle(b, k, <<0, j, j + 1>>, "fallback")]

\* the triangles one face contributes
FaceFan(b, k, anchor_index) ==
    LET n == Len(b.faces[k])
        fan_triangles == CreateRobustTriangleFan(b, k, anchor_index)
    IN  IF n <= 2 THEN <<>>
        ELSE IF n = 3 THEN <<FanTriangle(b, k, <<0, 1, 2>>, "direct")>>
        ELSE IF fan_triangles # <<>> THEN fan_triangles
        ELSE CreateSimpleTriangleFan(b, k)

\* encode_triangle_fan_implicit; anchors[k] is the anchor the scoring of
\* _select_optimal_anchor_loop picks for face k
EncodeTriangleFanImplicit(b, anchors) ==
    IF Len(b.faces) = 0 THEN <<>>
    ELSE Concat([k \in 1..Len(b.faces) |-> FaceFan(b, k, anchors[k])])

\* the anchors the scoring may pick: the score is a sum of floating-point
\* quotients of distances, so any loop of an n-gon may come out best; a
\* face of at most 3 loops gets face_loops[0]
AnchorChoices(b) ==
    {a \in [1..Len(b.faces) -> 0..(MaxVerts - 1)] :
        \A k \in 1..Len(b.faces) :
            /\ a[k] < Len(b.faces[k])
            /\ Len(b.faces[k]) <= 3 => a[k] = 0}

\* ------------------------------------------------------------------------
\* BmeshDecoder

Get(d, key, default) == IF key \in DOMAIN d THEN d[key] ELSE default

\* a Python list, as distinct from a dict (a record) and from None
PyList(items) == [list |-> items]

\* isinstance(v, dict)
IsDict(v) ==
    /\ "none" \notin DOMAIN v
    /\ "list" \notin DOMAIN v
    /\ "int" \notin DOMAIN v

\* bool(v) of None, a list or a dict
Truthy(v) ==
    IF "none" \in DOMAIN v THEN FALSE
    ELSE IF "list" \in DOMAIN v THEN v.list # <<>>
    ELSE DOMAIN v # {}

\* a topology check that lets every input pass
HasAnyData(d) == TRUE

HasExplicitTopologyData(d) ==
    \A key \in {"vertices", "edges", "loops", "faces"} : key \in DOMAIN d

\* bm.verts after the loop over range(vertex_count); raised: struct.error of
\* the unpack, or IndexError of positions[pos_idx] with the vertices created
\* before it
ReconstructVertices(vertex_data) ==
    LET vertex_count == Get(vertex_data, "count", 0)
        none == [raised |-> FALSE, verts |-> <<>>]
    IN  IF vertex_count = 0 THEN none
        ELSE IF "positions" \notin DOMAIN vertex_data THEN none
        ELSE IF "data" \notin DOMAIN vertex_data["positions"] THEN none
        ELSE LET u == UnpackF32(vertex_count * 3,
                                vertex_data["positions"]["data"])
                 made == Min(vertex_count, Len(u.vals) \div 3)
             IN  IF u.raised THEN [raised |-> TRUE, verts |-> <<>>]
                 ELSE IF u.vals = <<>> THEN none
                 ELSE [raised |-> made < vertex_count,
                       verts |-> [i \in 1..made |->
                           <<u.vals[3*(i-1) + 1], u.vals[3*(i-1) + 2],
                             u.vals[3*(i-1) + 3]>>]]

\* vertex_map.get(idx): the vertices are mapped by their index
Resolves(idx, nverts) == idx >= 0 /\ idx < nverts

\* an edge loop that creates an edge for every encoded pair
RECURSIVE CreateEdgesAlways(_, _, _, _, _)
CreateEdgesAlways(acc, ev, edge_count, nverts, i) ==
    IF i >= edge_count THEN acc
    ELSE CreateEdgesAlways(
             [edges |-> Append(acc.edges, <<ev[2*i + 1], ev[2*i + 2]>>),
              edge_map |-> (i :> Len(acc.edges)) @@ acc.edge_map],
             ev, edge_count, nverts, i + 1)

\* the loop "for i in range(edge_count)" from iteration i on; acc is
\* [edges: bm.edges, edge_map: encoded edge index -> index in bm.edges]
RECURSIVE CreateEdges(_, _, _, _, _)
CreateEdges(acc, ev, edge_count, nverts, i) ==
    IF i >= edge_count THEN acc
    ELSE
    LET a == ev[2*i + 1]
        b == ev[2*i + 2]
        existing == EdgeIndex(acc.edges, a, b)
        step ==
            IF ~(Resolves(a, nverts) /\ Resolves(b, nverts)) THEN acc
            ELSE IF a = b THEN acc
            ELSE IF existing >= 0
                 THEN [acc EXCEPT !.edge_map = (i :> existing) @@ @]
                 ELSE [edges |-> Append(acc.edges, <<a, b>>),
                       edge_map |-> (i :> Len(acc.edges)) @@ acc.edge_map]
    IN  CreateEdges(step, ev, edge_count, nverts, i + 1)

\* "Get smooth flags if available": flags is None or the unpacked
\* attributes["_SMOOTH"]; struct.unpack raises on data of another length
\* than edge_count
EdgeSmoothFlags(edge_data, edge_count) ==
    LET attributes == Get(edge_data, "attributes", EmptyDict)
        absent == [raised |-> FALSE, flags |-> None]
    IN  IF "_SMOOTH" \notin DOMAIN attributes THEN absent
        ELSE IF ~IsDict(attributes["_SMOOTH"]) THEN absent
        ELSE IF "data" \notin DOMAIN attributes["_SMOOTH"] THEN absent
        ELSE IF Len(attributes["_SMOOTH"]["data"]) # edge_count
             THEN [raised |-> TRUE, flags |-> None]
             ELSE [raised |-> FALSE,
                   flags |-> PyList(attributes["_SMOOTH"]["data"])]

\* edge.smooth of every edge of bm.edges after the edge loop: the loop
\* assigns bool(smooth_flags[i]) to the edge it puts in edge_map[i], for i
\* in increasing order, so the last i of an edge stays; an edge the loop
\* did not assign keeps what bm.edges.new gave it ("unset")
EdgeSmooth(edges, edge_map, smooth_flags) ==
    [e \in 1..Len(edges) |->
        LET assigned == {i \in DOMAIN edge_map : edge_map[i] = e - 1}
        IN  IF smooth_flags = None \/ assigned = {} THEN "unset"
            ELSE LET last == CHOOSE i \in assigned :
                                 \A j \in assigned : j <= i
                 IN  IF smooth_flags.list[last + 1] # 0 THEN "True"
                     ELSE "False"]

ReconstructEdges(edge_data, nverts) ==
    LET edge_count == Get(edge_data, "count", 0)
        none == [raised |-> FALSE, edges |-> <<>>, edge_map |-> <<>>,
                 smooth |-> <<>>]
    IN  IF edge_count = 0 THEN none
        ELSE IF "vertices" \notin DOMAIN edge_data THEN none
        ELSE IF "data" \notin DOMAIN edge_data["vertices"] THEN none
        ELSE LET u == UnpackU32(edge_count * 2, edge_data["vertices"]["data"])
             IN  IF u.raised
                 THEN [raised |-> TRUE, edges |-> <<>>, edge_map |-> <<>>,
                       smooth |-> <<>>]
                 ELSE IF u.vals = <<>> THEN none
                 ELSE LET s == EdgeSmoothFlags(edge_data, edge_count)
                          r == CreateEdges([edges |-> <<>>, edge_map |-> <<>>],
                                           u.vals, edge_count, nverts, 0)
                      IN  IF s.raised
                          THEN [raised |-> TRUE, edges |-> <<>>,
                                edge_map |-> <<>>, smooth |-> <<>>]
                          ELSE [raised |-> FALSE, edges |-> r.edges,
                                edge_map |-> r.edge_map,
                                smooth |-> EdgeSmooth(r.edges, r.edge_map,
                                                      s.flags)]

SeqSet(s) == {s[k] : k \in 1..Len(s)}

\* bm.faces.new(face_verts) raises ValueError: a vertex used twice, or a
\* face on the same vertices exists
FacesNewRaises(faces, face_verts) ==
    \/ Cardinality(SeqSet(face_verts)) # Len(face_verts)
    \/ \E k \in 1..Len(faces) : SeqSet(faces[k]) = SeqSet(face_verts)

MinFaceVerts == 3

\* the loop "for i in range(face_count)" from iteration i on; acc is
\* [edges, faces, face_map: encoded face index -> index in bm.faces,
\*  log: the logger.warning calls]
RECURSIVE CreateFaces(_, _, _, _, _, _)
CreateFaces(acc, offsets, fv, face_count, nverts, i) ==
    IF i >= face_count THEN acc
    ELSE
    LET vertex_start == offsets[i + 1]
        vertex_end   == offsets[i + 2]
        face_vertex_indices == Slice(fv, vertex_start, vertex_end)
        face_verts == SelectSeq(face_vertex_indices,
                                LAMBDA idx : Resolves(idx, nverts))
        step ==
            IF Len(face_verts) < MinFaceVerts THEN acc
            ELSE IF FacesNewRaises(acc.faces, face_verts)
                 THEN [acc EXCEPT !.log = Append(@, "Failed to create face")]
                 ELSE [edges |-> AddFaceEdges(acc.edges, face_verts, 0),
                       faces |-> Append(acc.faces, face_verts),
                       face_map |-> (i :> Len(acc.faces)) @@ acc.face_map,
                       log |-> acc.log]
    IN  CreateFaces(step, offsets, fv, face_count, nverts, i + 1)

ReconstructFaces(face_data, nverts, edges) ==
    LET face_count == Get(face_data, "count", 0)
        none == [raised |-> FALSE, edges |-> edges, faces |-> <<>>,
                 face_map |-> <<>>, log |-> <<>>]
        fail == [raised |-> TRUE, edges |-> edges, faces |-> <<>>,
                 face_map |-> <<>>, log |-> <<>>]
    IN  IF face_count = 0 THEN none
        ELSE IF "vertices" \notin DOMAIN face_data
                \/ "offsets" \notin DOMAIN face_data THEN none
        ELSE IF "data" \notin DOMAIN face_data["offsets"] THEN none
        ELSE
        LET uo == UnpackU32(face_count + 1, face_data["offsets"]["data"])
        IN  IF uo.raised THEN fail
            ELSE IF "data" \notin DOMAIN face_data["vertices"] THEN none
            ELSE
            LET max_vertex_offset == uo.vals[face_count + 1]
                uv == UnpackU32(max_vertex_offset,
                                face_data["vertices"]["data"])
            IN  IF uv.raised THEN fail
                ELSE IF uv.vals = <<>> THEN none
                ELSE LET r == CreateFaces(
                                  [edges |-> edges, faces |-> <<>>,
                                   face_map |-> <<>>, log |-> <<>>],
                                  uo.vals, uv.vals, face_count, nverts, 0)
                     IN  [raised |-> FALSE, edges |-> r.edges,
                          faces |-> r.faces, face_map |-> r.face_map,
                          log |-> r.log]

\* _apply_loop_data_from_direct_data on the faces created: raised is the
\* struct.error of an unpack, layers the UV layers of the BMesh afterwards
\* (one layer, filled from TEXCOORD_0 by a running loop index, when any UV
\* attribute was read; a loop that gets no value keeps (0, 0))
ApplyLoopData(faces, loop_data) ==
    LET loop_count == Get(loop_data, "count", 0)
        attributes == Get(loop_data, "attributes", EmptyDict)
        names == {name \in DOMAIN attributes :
                     /\ name \in SeqSet(TexcoordNames)
                     /\ "data" \in DOMAIN attributes[name]}
        uv_data == [name \in names |->
                       UnpackF32(loop_count * 2, attributes[name]["data"])]
        total == LoopBase(faces, Len(faces))
    IN  IF loop_count = 0 THEN [raised |-> FALSE, layers |-> <<>>]
        ELSE IF \E name \in names : uv_data[name].raised
        THEN [raised |-> TRUE, layers |-> <<>>]
        ELSE IF names = {} THEN [raised |-> FALSE, layers |-> <<>>]
        ELSE [raised |-> FALSE,
              layers |-> <<[g \in 1..total |->
                  LET loop_index == g - 1
                      uv_idx == loop_index * 2
                  IN  IF loop_index < loop_count /\ "TEXCOORD_0" \in names
                         /\ uv_idx + 1 < Len(uv_data["TEXCOORD_0"].vals)
                      THEN <<uv_data["TEXCOORD_0"].vals[uv_idx + 1],
                             uv_data["TEXCOORD_0"].vals[uv_idx + 2]>>
                      ELSE <<0, 0>>]>>]

\* the sections whose "count" the structure check asks for
CountCheckedSections == {"vertices", "edges", "faces"}

Failed(failure, created, log) ==
    [bm |-> None, created |-> created, failure |-> failure,
     edge_map |-> <<>>, face_map |-> <<>>, log |-> log]

\* _decode_encoded_data_to_bmesh: bm is the BMesh returned (None: no BMesh),
\* created the number of bm.verts.new calls made, failure the branch that
\* returned None, log the logger.warning / logger.error calls
DecodeEncodedDataToBmesh(encoded_data) ==
    IF ~HasExplicitTopologyData(encoded_data)
    THEN Failed("missing_sections", 0,
                <<"Encoded data missing required topology sections">>)
    ELSE IF \E key \in CountCheckedSections :
                LET data == Get(encoded_data, key, EmptyDict)
                IN  ~(IsDict(data) /\ "count" \in DOMAIN data)
    THEN Failed("invalid_structure", 0,
                <<"Invalid topology data structure in encoded data">>)
    ELSE
    LET v == ReconstructVertices(encoded_data["vertices"])
        nverts == Len(v.verts)
    IN  IF v.raised
        THEN Failed("exception", nverts,
                    <<"Failed to decode BMesh from direct data">>)
        ELSE IF v.verts = <<>>
        THEN Failed("no_vertices", 0,
                    <<"Failed to reconstruct vertices from direct data">>)
        ELSE
        LET e == ReconstructEdges(encoded_data["edges"], nverts)
        IN  IF e.raised
            THEN Failed("exception", nverts,
                        <<"Failed to decode BMesh from direct data">>)
            ELSE
            LET f == ReconstructFaces(encoded_data["faces"], nverts, e.edges)
            IN  IF f.raised
                THEN Failed("exception", nverts,
                            <<"Failed to decode BMesh from direct data">>)
                ELSE
                LET loop_data == Get(encoded_data, "loops", EmptyDict)
                    l == IF ~Truthy(loop_data)
                         THEN [raised |-> FALSE, layers |-> <<>>]
                         ELSE IF ~IsDict(loop_data)
                         THEN [raised |-> TRUE, layers |-> <<>>]
                         ELSE IF Get(loop_data, "count", 0) > 0
                         THEN ApplyLoopData(f.faces, loop_data)
                         ELSE [raised |-> FALSE, layers |-> <<>>]
                IN  IF l.raised
                    THEN Failed("exception", nverts,
                                <<"Failed to decode BMesh from direct data">>)
                    ELSE [bm |-> [verts |-> v.verts, edges |-> f.edges,
                                  edge_smooth |->
                                      [k \in 1..Len(f.edges) |->
                                          IF k <= Len(e.smooth)
                                          THEN e.smooth[k] ELSE "unset"],
                                  faces |-> f.faces]
                                 @@ (IF l.layers = <<>> THEN EmptyDict
                                     ELSE "uv" :> l.layers),
                          created |-> nverts, failure |-> "none",
                          edge_map |-> e.edge_map, face_map |-> f.face_map,
                          log |-> f.log]

\* the loop "for triangle in triangles" of decode_implicit_triangle_fan from
\* triangle i on; acc is [faces, current_face_vertices, prev_anchor], with
\* prev_anchor <<>> for None and <<a>> for anchor a
RECURSIVE DecodeFanFrom(_, _, _)
DecodeFanFrom(acc, triangles, i) ==
    IF i > Len(triangles) THEN acc
    ELSE
    LET triangle == triangles[i]
        anchor == triangle[1]
        new_vertex == triangle[3]
        step ==
            IF Len(triangle) < 3 THEN acc
            ELSE IF acc.prev_anchor # <<anchor>>
            THEN [faces |-> IF acc.current_face_vertices # <<>>
                            THEN Append(acc.faces, acc.current_face_vertices)
                            ELSE acc.faces,
                  current_face_vertices |-> triangle,
                  prev_anchor |-> <<anchor>>]
            ELSE IF \E k \in 1..Len(acc.current_face_vertices) :
                        acc.current_face_vertices[k] = new_vertex
                 THEN acc
                 ELSE [acc EXCEPT !.current_face_vertices =
                                       Append(@, new_vertex)]
    IN  DecodeFanFrom(step, triangles, i + 1)

\* decoder.decode_implicit_triangle_fan(triangles)
DecodeImplicitTriangleFan(triangles) ==
    IF triangles = <<>> THEN <<>>
    ELSE LET r == DecodeFanFrom([faces |-> <<>>,
                                 current_face_vertices |-> <<>>,
                                 prev_anchor |-> <<>>], triangles, 1)
         IN  IF r.current_face_vertices # <<>>
             THEN Append(r.faces, r.current_face_vertices)
             ELSE r.faces

\* decode_gltf_extension_to_bmesh
DecodeGltfExtensionToBmesh(extension_data) ==
    IF ~Truthy(extension_data) THEN Failed("no_data", 0, <<>>)
    ELSE IF HasExplicitTopologyData(extension_data)
         THEN DecodeEncodedDataToBmesh(extension_data)
         ELSE Failed("no_topology", 0, <<>>)

\* bm.to_mesh(mesh) and bm.from_mesh(mesh): the whole geometry is replaced
ToMesh(b) ==
    [vertices |-> b.verts, edges |-> b.edges, polygons |-> b.faces]
        @@ (IF "uv" \in DOMAIN b THEN "uv_layers" :> b.uv ELSE EmptyDict)

FromMesh(m) ==
    [verts |-> m.vertices, edges |-> m.edges, faces |-> m.polygons]
        @@ (IF "uv_layers" \in DOMAIN m THEN "uv" :> m.uv_layers ELSE EmptyDict)

\* the calls of apply_bmesh_to_blender_mesh into the host, in order; any of
\* them may raise, which the method turns into the result False
HostCalls ==
    {"to_mesh", "use_smooth", "update", "calc_loop_triangles", "calc_normals"}

\* apply_bmesh_to_blender_mesh(bm, mesh) when host call `raises` raises
\* ("none": no call raises): the result and the mesh afterwards
ApplyBmeshToBlenderMesh(b, m, raises) ==
    IF raises = "to_mesh" THEN [success |-> FALSE, mesh |-> m]
    ELSE IF raises # "none" THEN [success |-> FALSE, mesh |-> ToMesh(b)]
    ELSE [success |-> TRUE, mesh |-> ToMesh(b)]

\* ------------------------------------------------------------------------
\* Mesh sources

\* vertex i on a strictly convex lattice curve in the plane z = 0
ConvexPos(i) == <<i, i * i, 0>>

\* face c of the catalog on nv vertices: the window of k consecutive vertices
\* starting at vertex s, for every start s and every length k in 3..nv
CatalogFace(nv, c) ==
    LET s == c \div (nv - 2)
        k == 3 + (c % (nv - 2))
    IN  [j \in 1..k |-> (s + j - 1) % nv]

CatalogSize(nv) == nv * (nv - 2)

RECURSIVE SortedSeq(_)
SortedSeq(S) ==
    IF S = {} THEN <<>>
    ELSE LET m == CHOOSE x \in S : \A y \in S : x <= y
         IN  <<m>> \o SortedSeq(S \ {m})

RECURSIVE EdgesOfFaces(_, _, _)
EdgesOfFaces(edges, faces, k) ==
    IF k > Len(faces) THEN edges
    ELSE EdgesOfFaces(AddFaceEdges(edges, faces[k], 0), faces, k + 1)

\* the vertex pairs that no edge connects
FreePairs(nv, edges) ==
    {pr \in (0..(nv - 1)) \X (0..(nv - 1)) :
        pr[1] < pr[2] /\ EdgeIndex(edges, pr[1], pr[2]) < 0}

FirstPair(S) ==
    CHOOSE pr \in S : \A q \in S :
        pr[1] < q[1] \/ (pr[1] = q[1] /\ pr[2] <= q[2])

\* the BMesh of MaxVerts vertices whose faces are the catalog faces picked, in
\* catalog order, with or without one wire edge
SourceMesh(picked, wire) ==
    LET order == SortedSeq(picked)
        faces == [k \in 1..Len(order) |-> CatalogFace(MaxVerts, order[k])]
        fe    == EdgesOfFaces(<<>>, faces, 1)
        free  == FreePairs(MaxVerts, fe)
    IN  [verts |-> [i \in 1..MaxVerts |-> ConvexPos(i - 1)],
         edges |-> IF wire /\ free # {} THEN Append(fe, FirstPair(free))
                   ELSE fe,
         faces |-> faces]

EmptyMesh == [vertices |-> <<>>, edges |-> <<>>, polygons |-> <<>>]
NoTamper == [kind |-> "none"]
NoDecode == Failed("not_run", 0, <<>>)
NoSecondRun == [encoded |-> FALSE, enc |-> EmptyDict, decoded |-> FALSE,
                ret |-> None]
NoPreprocessor ==
    [extracted_data |-> EmptyDict, given |-> EmptyDict, json_dict |-> EmptyDict,
     cleaned_json |-> EmptyDict, last |-> "none", made |-> 0]
NoImplicit == [polygons |-> <<>>, triangles |-> <<>>, faces |-> <<>>]

Init ==
    /\ pc = "src"
    /\ \E picked \in SUBSET (0..(CatalogSize(MaxVerts) - 1)), wire \in BOOLEAN :
          /\ Cardinality(picked) <= MaxFaces
          /\ bm = SourceMesh(picked, wire)
    /\ enc = EmptyDict
    /\ tamper = NoTamper
    /\ dec = NoDecode
    /\ prior = EmptyMesh
    /\ mesh = EmptyMesh
    /\ ret = None
    /\ applied = "not_run"
    /\ cycle = 0
    /\ fan = <<>>
    /\ preserve_manifold_info = TRUE
    /\ calls = <<>>
    /\ frames = <<>>
    /\ gltf = [bufferViews |-> <<>>, buffer0 |-> <<>>]
    /\ again = NoSecondRun
    /\ implicit = NoImplicit
    /\ preprocessor = NoPreprocessor

\* vertex positions of the meshes handed to the triangle fan: on the convex
\* curve, on one line, or on the convex curve with vertex 0 moved onto
\* vertex 1
Layouts == {"convex", "collinear", "pinched"}

LayoutPos(layout, i) ==
    IF layout = "collinear" THEN <<i, 0, 0>>
    ELSE IF layout = "pinched" /\ i = 0 THEN ConvexPos(1)
    ELSE ConvexPos(i)

FanMesh(picked, layout, mixed) ==
    LET src == SourceMesh(picked, FALSE)
    IN  [verts |-> [i \in 1..MaxVerts |-> LayoutPos(layout, i - 1)],
         edges |-> src.edges,
         faces |-> src.faces,
         material_index |->
             [k \in 1..Len(src.faces) |-> IF mixed THEN k % 2 ELSE 0]]

InitFan ==
    /\ pc = "src"
    /\ \E picked \in SUBSET (0..(CatalogSize(MaxVerts) - 1)),
          layout \in Layouts, mixed \in BOOLEAN :
          /\ Cardinality(picked) <= MaxFanFaces
          /\ bm = FanMesh(picked, layout, mixed)
    /\ enc = EmptyDict
    /\ tamper = NoTamper
    /\ dec = NoDecode
    /\ prior = EmptyMesh
    /\ mesh = EmptyMesh
    /\ ret = None
    /\ applied = "not_run"
    /\ cycle = 0
    /\ fan = <<>>
    /\ preserve_manifold_info = TRUE
    /\ calls = <<>>
    /\ frames = <<>>
    /\ gltf = [bufferViews |-> <<>>, buffer0 |-> <<>>]
    /\ again = NoSecondRun
    /\ implicit = NoImplicit
    /\ preprocessor = NoPreprocessor

\* layer l of a source with UVs: loop g (0-based) carries (g + 1, 10 * l + g)
SourceUV(nloops, l) == [g \in 1..nloops |-> <<g, 10 * l + g - 1>>]

UVLayerCounts == {1, 2}

UVMesh(picked, nlayers) ==
    LET src == SourceMesh(picked, FALSE)
    IN  src @@ [uv |-> [l \in 1..nlayers |->
                            SourceUV(LoopBase(src.faces, Len(src.faces)), l)]]

\* sources with one or two UV layers
InitUV ==
    /\ pc = "src"
    /\ \E picked \in SUBSET (0..(CatalogSize(MaxVerts) - 1)),
          nlayers \in UVLayerCounts :
          /\ Cardinality(picked) <= MaxUVFaces
          /\ bm = UVMesh(picked, nlayers)
    /\ enc = EmptyDict
    /\ tamper = NoTamper
    /\ dec = NoDecode
    /\ prior = EmptyMesh
    /\ mesh = EmptyMesh
    /\ ret = None
    /\ applied = "not_run"
    /\ cycle = 0
    /\ fan = <<>>
    /\ preserve_manifold_info = TRUE
    /\ calls = <<>>
    /\ frames = <<>>
    /\ gltf = [bufferViews |-> <<>>, buffer0 |-> <<>>]
    /\ again = NoSecondRun
    /\ implicit = NoImplicit
    /\ preprocessor = NoPreprocessor

\* sources of at most MaxSmallFaces faces
InitSmall ==
    /\ pc = "src"
    /\ \E picked \in SUBSET (0..(CatalogSize(MaxVerts) - 1)), wire \in BOOLEAN :
          /\ Cardinality(picked) <= MaxSmallFaces
          /\ bm = SourceMesh(picked, wire)
    /\ enc = EmptyDict
    /\ tamper = NoTamper
    /\ dec = NoDecode
    /\ prior = EmptyMesh
    /\ mesh = EmptyMesh
    /\ ret = None
    /\ applied = "not_run"
    /\ cycle = 0
    /\ fan = <<>>
    /\ preserve_manifold_info = TRUE
    /\ calls = <<>>
    /\ frames = <<>>
    /\ gltf = [bufferViews |-> <<>>, buffer0 |-> <<>>]
    /\ again = NoSecondRun
    /\ implicit = NoImplicit
    /\ preprocessor = NoPreprocessor

\* encoder.encode_triangle_fan_implicit(bm)
EncodeFan ==
    /\ pc = "src"
    /\ \E anchors \in AnchorChoices(bm) :
          fan' = EncodeTriangleFanImplicit(bm, anchors)
    /\ pc' = "fan"
    /\ UNCHANGED <<bm, enc, tamper, dec, prior, mesh, ret, applied, cycle,
                 preserve_manifold_info,
                 calls, frames, gltf, again,
                 implicit,
                 preprocessor>>

\* the caller assigns encoder.preserve_manifold_info before encoding
SetPreserveManifoldInfo ==
    /\ pc = "src"
    /\ preserve_manifold_info' = ~preserve_manifold_info
    /\ UNCHANGED <<pc, bm, enc, tamper, dec, prior, mesh, ret, applied, cycle,
                 fan,
                 calls, frames, gltf, again,
                 implicit,
                 preprocessor>>

\* an encoder whose call switches its preserve_manifold_info off
SelfFlagCleared(preserve) == FALSE

\* self.preserve_manifold_info after a call of the encoder, which assigns
\* no attribute of self
SelfAfterEncode(preserve) == preserve

\* encoder.encode_bmesh_to_gltf_extension(bm)
Encode ==
    /\ pc = "src"
    /\ enc' = EncodeBmeshToGltfExtension(bm, preserve_manifold_info)
    /\ preserve_manifold_info' = SelfAfterEncode(preserve_manifold_info)
    /\ pc' = "encoded"
    /\ UNCHANGED <<bm, tamper, dec, prior, mesh, ret, applied, cycle, fan,
                 calls, frames, gltf, again,
                 implicit,
                 preprocessor>>

\* the same encoder encodes the same mesh a second time
EncodeAgain ==
    /\ pc = "encoded"
    /\ ~again.encoded
    /\ again' = [again EXCEPT
                    !.encoded = TRUE,
                    !.enc = EncodeBmeshToGltfExtension(bm,
                                preserve_manifold_info)]
    /\ preserve_manifold_info' = SelfAfterEncode(preserve_manifold_info)
    /\ UNCHANGED <<pc, bm, enc, tamper, dec, prior, mesh, ret, applied, cycle,
                   fan, calls, frames, gltf,
                 implicit,
                 preprocessor>>

\* ------------------------------------------------------------------------
\* Decoder inputs that no encoder produced

WithoutKey(d, key) == [k \in DOMAIN d \ {key} |-> d[k]]

\* data with its 32-bit entry k replaced by value
SetU32(data, k, value) ==
    [j \in 1..Len(data) |->
        IF j > 4 * k /\ j <= 4 * k + 4 THEN PackU32(value)[j - 4 * k]
        ELSE data[j]]

Sections == {"vertices", "edges", "loops", "faces"}

\* a section is removed
DropSection ==
    \E key \in Sections :
        /\ enc' = WithoutKey(enc, key)
        /\ tamper' = [kind |-> "drop_section", key |-> key]

\* a section loses its count
DropCount ==
    \E key \in Sections :
        /\ enc' = [enc EXCEPT ![key] = WithoutKey(@, "count")]
        /\ tamper' = [kind |-> "drop_count", key |-> key]

\* the positions buffer loses its last vertex; the declared count stays
TruncatePositions ==
    /\ enc' = [enc EXCEPT !["vertices"]["positions"]["data"] =
                   SubSeq(@, 1, Len(@) - 12)]
    /\ tamper' = [kind |-> "truncate_positions"]

\* the second vertex index of edge i is 999
BadEdge ==
    \E i \in 0..(enc["edges"]["count"] - 1) :
        /\ enc' = [enc EXCEPT !["edges"]["vertices"]["data"] =
                       SetU32(@, 2 * i + 1, 999)]
        /\ tamper' = [kind |-> "bad_edge", index |-> i]

\* the first vertex index of face i is 999
BadFaceVertex ==
    \E i \in 0..(enc["faces"]["count"] - 1) :
        /\ enc' = [enc EXCEPT !["faces"]["vertices"]["data"] =
                       SetU32(@, U32At(enc["faces"]["offsets"]["data"], i),
                              999)]
        /\ tamper' = [kind |-> "bad_face_vertex", index |-> i]

\* the error cases of test_error_handling_corrupted_data
ErrorCases ==
    {None, EmptyDict,
     [vertex |-> PyList(<<>>), face |-> PyList(<<>>), loop |-> PyList(<<>>)],
     [vertex |-> None, face |-> None, loop |-> None]}

\* what a section is replaced by: None, an empty list, an empty dict, a list
\* where a dict is expected
MalformedValues == {None, PyList(<<>>), EmptyDict, PyList(<<0>>)}

\* the data handed to the decoder is one of the error cases, or the encoding
\* with one section missing, or with one section or all of them malformed
Malform ==
    /\ \/ /\ pc = "src"
          /\ \E case \in ErrorCases :
                /\ enc' = case
                /\ tamper' = [kind |-> "error_case"]
       \/ /\ pc = "encoded"
          /\ tamper = NoTamper
          /\ Truthy(enc)
          /\ \/ DropSection
             \/ \E keys \in {Sections} \cup {{key} : key \in Sections},
                   value \in MalformedValues :
                   /\ enc' = [key \in DOMAIN enc |->
                                 IF key \in keys THEN value ELSE enc[key]]
                   /\ tamper' = [kind |-> "malformed", keys |-> keys,
                                 value |-> value]
    /\ pc' = "encoded"
    /\ UNCHANGED <<bm, dec, prior, mesh, ret, applied, cycle, fan,
                 preserve_manifold_info,
                 calls, frames, gltf, again,
                 implicit,
                 preprocessor>>

\* the vertex pair of edge j becomes that of edge i, as it is or reversed
DuplicateEdge ==
    /\ pc = "encoded"
    /\ tamper = NoTamper
    /\ Truthy(enc)
    /\ \E i \in 0..(enc["edges"]["count"] - 1),
          j \in 0..(enc["edges"]["count"] - 1), reversed \in BOOLEAN :
          LET data == enc["edges"]["vertices"]["data"]
              a == U32At(data, 2 * i)
              b == U32At(data, 2 * i + 1)
          IN  /\ i # j
              /\ enc' = [enc EXCEPT !["edges"]["vertices"]["data"] =
                             SetU32(SetU32(@, 2 * j,
                                           IF reversed THEN b ELSE a),
                                    2 * j + 1, IF reversed THEN a ELSE b)]
              /\ tamper' = [kind |-> "duplicate_edge", index |-> j,
                            of |-> i]
    /\ UNCHANGED <<pc, bm, dec, prior, mesh, ret, applied, cycle, fan,
                   preserve_manifold_info, calls, frames, gltf, again,
                 implicit,
                 preprocessor>>

Tamper ==
    /\ pc = "encoded"
    /\ tamper = NoTamper
    /\ DOMAIN enc # {}
    /\ \/ DropSection
       \/ DropCount
       \/ TruncatePositions
       \/ BadEdge
       \/ BadFaceVertex
    /\ UNCHANGED <<pc, bm, dec, prior, mesh, ret, applied, cycle, fan,
                 preserve_manifold_info,
                 calls, frames, gltf, again,
                 implicit,
                 preprocessor>>

\* decoder.decode_gltf_extension_to_bmesh(enc)
DecodeToBmesh ==
    /\ pc = "encoded"
    /\ dec' = DecodeGltfExtensionToBmesh(enc)
    /\ pc' = "decoded"
    /\ UNCHANGED <<bm, enc, tamper, prior, mesh, ret, applied, cycle, fan,
                 preserve_manifold_info,
                 calls, frames, gltf, again,
                 implicit,
                 preprocessor>>

\* decoder.decode_into_mesh(enc, target_mesh): target is the state of the
\* mesh handed in (EmptyMesh also stands for the mesh the method creates when
\* it is handed none), raises the host call that raises during apply
OldMesh ==
    [vertices |-> <<ConvexPos(0), ConvexPos(1), ConvexPos(2)>>,
     edges |-> <<<<0, 1>>, <<1, 2>>, <<2, 0>>>>,
     polygons |-> <<<<0, 1, 2>>>>]

DecodeIntoMesh ==
    /\ pc = "encoded"
    /\ \E d \in {DecodeEncodedDataToBmesh(enc)} :
           \E target \in {EmptyMesh, OldMesh}, raises \in {"none"} \cup HostCalls :
             LET a == ApplyBmeshToBlenderMesh(d.bm, target, raises)
             IN  /\ prior' = target
                 /\ IF ~Truthy(enc)
                    THEN /\ dec' = NoDecode
                         /\ mesh' = target
                         /\ applied' = "not_run"
                         /\ ret' = None
                    ELSE IF d.bm = None
                    THEN /\ dec' = d
                         /\ mesh' = target
                         /\ applied' = "not_run"
                         /\ ret' = None
                    ELSE /\ dec' = d
                         /\ mesh' = a.mesh
                         /\ applied' = IF a.success THEN "ok" ELSE "failed"
                         /\ ret' = IF a.success THEN a.mesh ELSE None
    /\ pc' = "done"
    /\ UNCHANGED <<bm, enc, tamper, cycle, fan,
                 preserve_manifold_info,
                 calls, frames, gltf, again,
                 implicit,
                 preprocessor>>

\* decoder.decode_into_mesh(again.enc): the second encoding is decoded into
\* a new mesh
DecodeAgain ==
    /\ pc = "done"
    /\ again.encoded
    /\ ~again.decoded
    /\ \E d \in {DecodeEncodedDataToBmesh(again.enc)} :
           \E raises \in {"none"} \cup HostCalls :
             LET a == ApplyBmeshToBlenderMesh(d.bm, EmptyMesh, raises)
             IN  again' = [again EXCEPT
                             !.decoded = TRUE,
                             !.ret = IF ~Truthy(again.enc) THEN None
                                     ELSE IF d.bm = None THEN None
                                     ELSE IF a.success THEN a.mesh
                                     ELSE None]
    /\ UNCHANGED <<pc, bm, enc, tamper, dec, prior, mesh, ret, applied, cycle,
                   fan, preserve_manifold_info, calls, frames, gltf,
                 implicit,
                 preprocessor>>

\* the decoded mesh becomes the source of the next encode/decode cycle
Reimport ==
    /\ pc = "done"
    /\ ret # None
    /\ cycle < MaxCycles
    /\ cycle' = cycle + 1
    /\ bm' = FromMesh(ret)
    /\ pc' = "src"
    /\ enc' = EmptyDict
    /\ dec' = NoDecode
    /\ prior' = EmptyMesh
    /\ mesh' = EmptyMesh
    /\ ret' = None
    /\ applied' = "not_run"
    /\ UNCHANGED <<tamper, fan,
                 preserve_manifold_info,
                 calls, frames, gltf, again,
                 implicit,
                 preprocessor>>

\* encode, then decode what the encoder or anyone else hands over
Next == Encode \/ Tamper \/ DecodeToBmesh

Spec == Init /\ [][Next]_vars

\* encode/decode cycles through a Blender mesh
NextRoundTrip == Encode \/ DecodeIntoMesh \/ Reimport

SpecRoundTrip == Init /\ [][NextRoundTrip]_vars

\* the triangle fan of meshes of every layout
NextFan == EncodeFan

SpecFan == InitFan /\ [][NextFan]_vars

\* encode and decode of sources that carry UV layers
SpecUV == InitUV /\ [][Next]_vars

\* the exporter turns the encoding into buffer views of a glTF buffer that
\* holds nothing or holds bytes already; the record of handles takes the
\* place of the encoding
ExportBufferViews ==
    /\ pc = "encoded"
    /\ tamper = NoTamper
    /\ \E before \in {<<>>, <<1, 2, 3, 4, 5>>} :
          LET st == CreateBufferViews(<<>>, before, enc)
          IN  /\ enc' = st.result_data
              /\ gltf' = [bufferViews |-> st.bufferViews,
                          buffer0 |-> st.buffer0]
              /\ tamper' = [kind |-> "buffer_views", before |-> before]
    /\ UNCHANGED <<pc, bm, dec, prior, mesh, ret, applied, cycle, fan,
                   preserve_manifold_info, calls, frames, again,
                 implicit,
                 preprocessor>>

\* extension data for a further call: the encoding as it is, or with the
\* data of one attribute empty, or with one attribute that has no data
FurtherExtensionData(raw) ==
    {raw}
    \cup {[raw EXCEPT ![ViewPaths[i][1]][ViewPaths[i][2]].data = <<>>] :
              i \in {j \in 1..Len(ViewPaths) :
                         Len(ViewPaths[j]) = 2 /\ HasPath(raw, ViewPaths[j])}}
    \cup {[raw EXCEPT ![ViewPaths[i][1]][ViewPaths[i][2]] =
                          WithoutKey(@, "data")] :
              i \in {j \in 1..Len(ViewPaths) :
                         Len(ViewPaths[j]) = 2 /\ HasPath(raw, ViewPaths[j])}}

\* a further call of create_buffer_views on the same json_dict and buffer0;
\* again keeps the extension data passed and the record returned
ExportFurther ==
    /\ pc = "encoded"
    /\ tamper.kind = "buffer_views"
    /\ ~again.encoded
    /\ \E extension_data \in FurtherExtensionData(
              EncodeBmeshToGltfExtension(bm, preserve_manifold_info)) :
          \E st \in {CreateBufferViews(gltf.bufferViews, gltf.buffer0,
                                       extension_data)} :
              /\ again' = [again EXCEPT !.encoded = TRUE,
                                        !.enc = extension_data,
                                        !.ret = st.result_data]
              /\ gltf' = [bufferViews |-> st.bufferViews,
                          buffer0 |-> st.buffer0]
    /\ UNCHANGED <<pc, bm, enc, tamper, dec, prior, mesh, ret, applied,
                   cycle, fan, preserve_manifold_info, calls, frames,
                 implicit,
                 preprocessor>>

\* smooth flags for edge_count edges: all clear, all set, or all but one
\* alike
SmoothFlagChoices(edge_count) ==
    {[i \in 1..edge_count |-> IF i = j THEN 1 - rest ELSE rest] :
        j \in 0..edge_count, rest \in {0, 1}}

\* the edges section gets per-edge smooth flags, where the decoder looks
\* for them
AddEdgeSmooth ==
    /\ pc = "encoded"
    /\ tamper = NoTamper
    /\ "edges" \in DOMAIN enc
    /\ \E flags \in SmoothFlagChoices(enc["edges"]["count"]) :
          enc' = [enc EXCEPT !["edges"] =
                     ("attributes" :>
                         ("_SMOOTH" :> AttrN(flags, "ARRAY_BUFFER", 5121,
                                             "SCALAR", Len(flags)))) @@ @]
    /\ tamper' = [kind |-> "edge_smooth"]
    /\ UNCHANGED <<pc, bm, dec, prior, mesh, ret, applied, cycle, fan,
                   preserve_manifold_info, calls, frames, gltf, again,
                 implicit,
                 preprocessor>>

\* encode with or without manifold flags, add smooth flags, decode
NextFlags ==
    SetPreserveManifoldInfo \/ Encode \/ AddEdgeSmooth \/ DecodeToBmesh

SpecFlags == InitSmall /\ [][NextFlags]_vars

\* ------------------------------------------------------------------------
\* Polygons through the simple triangle fan and decode_implicit_triangle_fan

\* the polygons of the scenario: the corners of a convex polygon on some of
\* the vertices 0..MaxVerts-1, in their order around it, from any corner
PolygonChoices ==
    {p \in UNION {[1..n -> 0..(MaxVerts - 1)] : n \in 3..MaxVerts} :
        Cardinality({i \in 1..Len(p) : p[i] >= p[(i % Len(p)) + 1]}) = 1}

InitImplicit ==
    /\ pc = "polygons"
    /\ \E n \in 0..MaxPolygons :
          \E polygons \in [1..n -> PolygonChoices] :
              implicit = [NoImplicit EXCEPT !.polygons = polygons]
    /\ bm = EmptyMesh
    /\ enc = EmptyDict
    /\ tamper = NoTamper
    /\ dec = NoDecode
    /\ prior = EmptyMesh
    /\ mesh = EmptyMesh
    /\ ret = None
    /\ applied = "not_run"
    /\ cycle = 0
    /\ fan = <<>>
    /\ preserve_manifold_info = TRUE
    /\ calls = <<>>
    /\ frames = <<>>
    /\ gltf = [bufferViews |-> <<>>, buffer0 |-> <<>>]
    /\ again = NoSecondRun
    /\ preprocessor = NoPreprocessor

\* the vertex indices of the corners of the triangles that
\* _create_simple_triangle_fan makes of every polygon, polygon by polygon
SimpleFanTriples(polygons) ==
    Concat([k \in 1..Len(polygons) |->
        LET triangles == CreateSimpleTriangleFan([faces |-> polygons], k)
        IN  [j \in 1..Len(triangles) |->
                [c \in 1..3 |-> polygons[k][triangles[j].loops[c] + 1]]]])

\* every polygon is fanned from its first corner
FanPolygons ==
    /\ pc = "polygons"
    /\ implicit' = [implicit EXCEPT
                        !.triangles = SimpleFanTriples(implicit.polygons)]
    /\ pc' = "triangles"
    /\ UNCHANGED <<bm, enc, tamper, dec, prior, mesh, ret, applied, cycle, fan,
                   preserve_manifold_info, calls, frames, gltf, again,
                 preprocessor>>

\* decoder.decode_implicit_triangle_fan(triangles)
DecodeFan ==
    /\ pc = "triangles"
    /\ implicit' = [implicit EXCEPT
                        !.faces = DecodeImplicitTriangleFan(implicit.triangles)]
    /\ pc' = "faces"
    /\ UNCHANGED <<bm, enc, tamper, dec, prior, mesh, ret, applied, cycle, fan,
                   preserve_manifold_info, calls, frames, gltf, again,
                 preprocessor>>

NextImplicit == FanPolygons \/ DecodeFan

SpecImplicit == InitImplicit /\ [][NextImplicit]_vars

\* ------------------------------------------------------------------------
\* BmeshEncodingPreprocessor

\* f"Armature_{node_index}"
DefaultArmatureName(node_index) ==
    <<"Armature_0", "Armature_1", "Armature_2">>[node_index + 1]

\* _get_node_name: <<>> for None, <<name>> for a name
GetNodeName(json_dict, node_index) ==
    IF "nodes" \notin DOMAIN json_dict THEN <<>>
    ELSE IF "list" \notin DOMAIN json_dict["nodes"] THEN <<>>
    ELSE IF node_index < 0 \/ node_index >= Len(json_dict["nodes"].list)
    THEN <<>>
    ELSE LET node == json_dict["nodes"].list[node_index + 1]
         IN  IF ~IsDict(node) THEN <<>>
             ELSE IF "name" \in DOMAIN node THEN <<node["name"]>>
             ELSE <<DefaultArmatureName(node_index)>>

\* _find_armature_name_vrm1: the name of the node of the hips bone
FindArmatureNameVrm1(vrm1_dict, json_dict) ==
    LET humanoid_dict == Get(vrm1_dict, "humanoid", None)
    IN  IF ~IsDict(humanoid_dict) THEN <<>>
        ELSE LET human_bones_dict == Get(humanoid_dict, "humanBones", None)
             IN  IF ~IsDict(human_bones_dict) THEN <<>>
                 ELSE LET hips_dict == Get(human_bones_dict, "hips", None)
                      IN  IF ~IsDict(hips_dict) THEN <<>>
                          ELSE IF "node" \notin DOMAIN hips_dict THEN <<>>
                          ELSE GetNodeName(json_dict, hips_dict["node"])

\* _extract_vrm1_bmesh_encoding: _extracted_data after it; it assigns to no
\* key of vrm1_dict or json_dict
ExtractVrm1BmeshEncoding(extracted_data, vrm1_dict, json_dict) ==
    LET vrm_addon_extension == Get(vrm1_dict, "vrm_addon_extension", None)
    IN  IF ~IsDict(vrm_addon_extension) THEN extracted_data
        ELSE LET bmesh_encoding_data ==
                     Get(vrm_addon_extension, "bmesh_encoding", None)
                 armature_name == FindArmatureNameVrm1(vrm1_dict, json_dict)
             IN  IF bmesh_encoding_data = None THEN extracted_data
                 ELSE IF armature_name = <<>> \/ armature_name = <<"">>
                 THEN extracted_data
                 ELSE (armature_name[1] :> bmesh_encoding_data)
                          @@ extracted_data

\* a store that keeps what it held
KeepExtracted(extracted_data) == extracted_data

\* cls._extracted_data.clear()
ClearExtracted(extracted_data) == EmptyDict

\* preprocess_gltf_json(json_dict): the copy returned, the store, and the
\* dictionary handed in as it is after the call
PreprocessGltfJson(extracted_data, json_dict) ==
    LET cleaned_json == json_dict
        cleared == ClearExtracted(extracted_data)
        extensions_dict == Get(cleaned_json, "extensions", None)
        vrm1_dict == IF IsDict(extensions_dict)
                     THEN Get(extensions_dict, "VRMC_vrm", None) ELSE None
    IN  [cleaned_json |-> cleaned_json,
         json_dict |-> json_dict,
         extracted_data |->
             IF ~IsDict(extensions_dict) THEN cleared
             ELSE IF ~IsDict(vrm1_dict) THEN cleared
             ELSE ExtractVrm1BmeshEncoding(cleared, vrm1_dict, cleaned_json)]

\* get_extracted_data(armature_name): _extracted_data.get(armature_name)
GetExtractedData(extracted_data, armature_name) ==
    Get(extracted_data, armature_name, None)

\* the glTF JSON dictionaries of the scenario: without extensions, with
\* extensions that are a list, without VRMC_vrm, and with a VRMC_vrm whose
\* vrm_addon_extension is absent, a list, or a dict without bmesh_encoding
\* or with null, empty or filled bmesh_encoding, and whose hips bone is
\* absent or names a node by an index inside or outside nodes
GltfJsonChoices ==
    LET node_lists == {<<[name |-> "Armature"], EmptyDict>>,
                       <<[name |-> ""], [name |-> "Other"]>>}
        addon == {EmptyDict, "vrm_addon_extension" :> PyList(<<>>),
                  "vrm_addon_extension" :> [enabled |-> TRUE]}
                 \cup {"vrm_addon_extension" :>
                           [enabled |-> TRUE, bmesh_encoding |-> d] :
                           d \in {None, EmptyDict,
                                  [vertices |-> PyList(<<>>)],
                                  [vertices |-> PyList(<<1>>)]}}
        hips == {EmptyDict}
                \cup {"humanoid" :> [humanBones |-> [hips |-> [node |-> i]]] :
                         i \in 0..2}
    IN  {[nodes |-> PyList(nodes)] : nodes \in node_lists}
        \cup {[nodes |-> PyList(nodes), extensions |-> PyList(<<>>)] :
                 nodes \in node_lists}
        \cup {[nodes |-> PyList(nodes), extensions |-> EmptyDict] :
                 nodes \in node_lists}
        \cup {[nodes |-> PyList(nodes),
               extensions |-> [VRMC_vrm |-> [specVersion |-> "1.0"] @@ a @@ h]] :
                 nodes \in node_lists, a \in addon, h \in hips}

InitPreprocessor ==
    /\ pc = "preprocessor"
    /\ preprocessor = NoPreprocessor
    /\ bm = EmptyMesh
    /\ enc = EmptyDict
    /\ tamper = NoTamper
    /\ dec = NoDecode
    /\ prior = EmptyMesh
    /\ mesh = EmptyMesh
    /\ ret = None
    /\ applied = "not_run"
    /\ cycle = 0
    /\ fan = <<>>
    /\ preserve_manifold_info = TRUE
    /\ calls = <<>>
    /\ frames = <<>>
    /\ gltf = [bufferViews |-> <<>>, buffer0 |-> <<>>]
    /\ again = NoSecondRun
    /\ implicit = NoImplicit

\* BmeshEncodingPreprocessor.preprocess_gltf_json(json_dict)
Preprocess ==
    /\ pc = "preprocessor"
    /\ preprocessor.made < MaxPreprocessorCalls
    /\ \E json_dict \in GltfJsonChoices :
          \E r \in {PreprocessGltfJson(preprocessor.extracted_data,
                                       json_dict)} :
              preprocessor' =
                  [extracted_data |-> r.extracted_data, given |-> json_dict,
                   json_dict |-> r.json_dict, cleaned_json |-> r.cleaned_json,
                   last |-> "preprocess", made |-> preprocessor.made + 1]
    /\ UNCHANGED <<pc, bm, enc, tamper, dec, prior, mesh, ret, applied, cycle,
                   fan, preserve_manifold_info, calls, frames, gltf, again,
                   implicit>>

\* BmeshEncodingPreprocessor.clear_extracted_data()
ClearExtractedData ==
    /\ pc = "preprocessor"
    /\ preprocessor.made < MaxPreprocessorCalls
    /\ preprocessor' =
           [preprocessor EXCEPT
               !.extracted_data = ClearExtracted(preprocessor.extracted_data),
               !.last = "clear", !.made = @ + 1]
    /\ UNCHANGED <<pc, bm, enc, tamper, dec, prior, mesh, ret, applied, cycle,
                   fan, preserve_manifold_info, calls, frames, gltf, again,
                   implicit>>

NextPreprocessor == Preprocess \/ ClearExtractedData

SpecPreprocessor == InitPreprocessor /\ [][NextPreprocessor]_vars

\* encode, export to buffer views, export once more on the same buffer
NextStore == Encode \/ ExportBufferViews \/ ExportFurther

SpecStore == InitSmall /\ [][NextStore]_vars

\* encode, export to buffer views, decode the record of handles
NextViews == Encode \/ ExportBufferViews \/ DecodeToBmesh

SpecViews == InitUV /\ [][NextViews]_vars

\* ------------------------------------------------------------------------
\* Two calls whose steps interleave

\* one frame that every call uses
SharedFrame(c) == 1

\* the frame that holds the local variables of call c: extension_data of
\* _encode_to_buffer_format, bm of _decode_encoded_data_to_bmesh
Frame(c) == c

\* the other call
Other(c) == 3 - c

NewCall(op, b) ==
    [op |-> op, bm |-> b,
     input |-> IF op = "encode" THEN b
               ELSE EncodeBmeshToGltfExtension(b, TRUE),
     step |-> 0, done |-> FALSE, result |-> None, overlapped |-> FALSE]

\* one call on a mesh of at most one face, the other on a triangle or a quad
InitCalls ==
    /\ pc = "calls"
    /\ \E picked \in {{}} \cup {{c} : c \in 0..(CatalogSize(MaxVerts) - 1)},
          other \in {{0}, {1}}, op1 \in {"encode", "decode"},
          op2 \in {"encode", "decode"} :
          calls = <<NewCall(op1, SourceMesh(picked, FALSE)),
                    NewCall(op2, SourceMesh(other, FALSE))>>
    /\ frames = <<EmptyDict, EmptyDict>>
    /\ bm = EmptyMesh
    /\ enc = EmptyDict
    /\ tamper = NoTamper
    /\ dec = NoDecode
    /\ prior = EmptyMesh
    /\ mesh = EmptyMesh
    /\ ret = None
    /\ applied = "not_run"
    /\ cycle = 0
    /\ fan = <<>>
    /\ preserve_manifold_info = TRUE
    /\ gltf = [bufferViews |-> <<>>, buffer0 |-> <<>>]
    /\ again = NoSecondRun
    /\ implicit = NoImplicit
    /\ preprocessor = NoPreprocessor

\* the frame after `frame[key] = value`
Store(frame, key, value) == (key :> value) @@ frame

\* the frame after `if data: extension_data[key] = data`
StoreSection(frame, key, data) == Section(key, data) @@ frame

\* call c goes on: its frame becomes frame and it is at the next step
Advance(c, frame) ==
    /\ frames' = [frames EXCEPT ![Frame(c)] = frame]
    /\ calls' = [calls EXCEPT
                    ![c].step = @ + 1,
                    ![c].overlapped =
                        @ \/ (calls[Other(c)].step > 0
                                /\ ~calls[Other(c)].done)]

\* call c returns result
Return(c, result) ==
    /\ calls' = [calls EXCEPT
                    ![c].done = TRUE,
                    ![c].result = result,
                    ![c].overlapped =
                        @ \/ (calls[Other(c)].step > 0
                                /\ ~calls[Other(c)].done)]
    /\ UNCHANGED frames

\* a step of encode_bmesh_to_gltf_extension(bm) in call c: the early return
\* or the new extension_data, then one section per step, then the return
EncodeStep(c) ==
    LET call == calls[c]
        b == call.input
        extension_data == frames[Frame(c)]
    IN  /\ call.op = "encode"
        /\ ~call.done
        /\ IF call.step = 0
           THEN IF Len(b.faces) = 0 THEN Return(c, EmptyDict)
                ELSE Advance(c, EmptyDict)
           ELSE IF call.step = 1
           THEN Advance(c, StoreSection(extension_data, "vertices",
                                        EncodeVertices(b)))
           ELSE IF call.step = 2
           THEN Advance(c, StoreSection(extension_data, "edges",
                               EncodeEdges(b, preserve_manifold_info)))
           ELSE IF call.step = 3
           THEN Advance(c, StoreSection(extension_data, "loops",
                                        EncodeLoops(b)))
           ELSE IF call.step = 4
           THEN Advance(c, StoreSection(extension_data, "faces",
                                        EncodeFaces(b)))
           ELSE Return(c, extension_data)

\* a step of decode_gltf_extension_to_bmesh(extension_data) in call c: the
\* checks and the new BMesh, then vertices, edges, faces, loop data, then
\* the return
DecodeStep(c) ==
    LET call == calls[c]
        encoded_data == call.input
        frame == frames[Frame(c)]
        verts == Get(frame, "verts", <<>>)
        edges == Get(frame, "edges", <<>>)
        edge_smooth == Get(frame, "edge_smooth", <<>>)
        faces == Get(frame, "faces", <<>>)
    IN  /\ call.op = "decode"
        /\ ~call.done
        /\ IF call.step = 0
           THEN IF \/ ~Truthy(encoded_data)
                   \/ ~HasExplicitTopologyData(encoded_data)
                   \/ \E key \in CountCheckedSections :
                          "count" \notin DOMAIN encoded_data[key]
                THEN Return(c, None)
                ELSE Advance(c, EmptyDict)
           ELSE IF call.step = 1
           THEN LET v == ReconstructVertices(encoded_data["vertices"])
                IN  IF v.raised \/ v.verts = <<>> THEN Return(c, None)
                    ELSE Advance(c, Store(frame, "verts", v.verts))
           ELSE IF call.step = 2
           THEN LET e == ReconstructEdges(encoded_data["edges"], Len(verts))
                IN  IF e.raised THEN Return(c, None)
                    ELSE Advance(c, Store(Store(frame, "edges", e.edges),
                                          "edge_smooth", e.smooth))
           ELSE IF call.step = 3
           THEN LET f == ReconstructFaces(encoded_data["faces"], Len(verts),
                                          edges)
                IN  IF f.raised THEN Return(c, None)
                    ELSE Advance(c, Store(Store(Store(frame, "edges", f.edges),
                                                "edge_smooth",
                                                [k \in 1..Len(f.edges) |->
                                                    IF k <= Len(edge_smooth)
                                                    THEN edge_smooth[k]
                                                    ELSE "unset"]),
                                          "faces", f.faces))
           ELSE IF call.step = 4
           THEN LET loop_data == encoded_data["loops"]
                    l == IF Get(loop_data, "count", 0) > 0
                         THEN ApplyLoopData(faces, loop_data)
                         ELSE [raised |-> FALSE, layers |-> <<>>]
                IN  IF l.raised THEN Return(c, None)
                    ELSE IF l.layers = <<>> THEN Advance(c, frame)
                    ELSE Advance(c, Store(frame, "uv", l.layers))
           ELSE Return(c, [verts |-> verts, edges |-> edges,
                           edge_smooth |-> edge_smooth,
                           faces |-> faces]
                          @@ (IF "uv" \in DOMAIN frame
                              THEN "uv" :> frame["uv"] ELSE EmptyDict))

\* either call takes its next step
CallStep ==
    /\ pc = "calls"
    /\ \E c \in 1..2 : EncodeStep(c) \/ DecodeStep(c)
    /\ UNCHANGED <<pc, bm, enc, tamper, dec, prior, mesh, ret, applied, cycle,
                   fan, preserve_manifold_info, gltf, again,
                 implicit,
                 preprocessor>>

NextCalls == CallStep

SpecCalls == InitCalls /\ [][NextCalls]_vars

\* decode an encoding that lists one vertex pair twice
NextDuplicate == Encode \/ DuplicateEdge \/ DecodeToBmesh

SpecDuplicate == InitSmall /\ [][NextDuplicate]_vars

\* encode the same mesh twice, decode both encodings
NextTwice == Encode \/ EncodeAgain \/ DecodeIntoMesh \/ DecodeAgain

SpecTwice == InitSmall /\ [][NextTwice]_vars

\* decode_into_mesh of damaged data
NextMalformed == Encode \/ Malform \/ DecodeIntoMesh

SpecMalformed == InitSmall /\ [][NextMalformed]_vars

\* encode with preserve_manifold_info switched on or off, then decode
NextOptions == SetPreserveManifoldInfo \/ Encode \/ DecodeToBmesh

SpecOptions == Init /\ [][NextOptions]_vars

\* ------------------------------------------------------------------------
\* Properties

\* the mesh sources the round trip is stated for: at least one face, and no
\* two faces on the same set of vertices
RoundTripInput(b) ==
    /\ Len(b.faces) >= 1
    /\ \A j, k \in 1..Len(b.faces) :
           j # k => SeqSet(b.faces[j]) # SeqSet(b.faces[k])

\* the comparison of a source with a mesh: vertex count, face count, the
\* position of every vertex, the vertex set of every face
SameGeometry(b, m) ==
    /\ Len(m.vertices) = Len(b.verts)
    /\ Len(m.polygons) = Len(b.faces)
    /\ \A i \in 1..Len(b.verts) : m.vertices[i] = b.verts[i]
    /\ \A k \in 1..Len(b.faces) : SeqSet(m.polygons[k]) = SeqSet(b.faces[k])

\* C1: decoding what the encoder made of a mesh with faces gives a mesh with
\* the same vertex count, face count, vertex positions and per-face vertex
\* sets, also when the mesh is itself the result of an earlier decode.
C1_RoundTripIdentity ==
    (pc = "done" /\ RoundTripInput(bm)) =>
        /\ dec.bm # None
        /\ SameGeometry(bm, ToMesh(dec.bm))
        /\ applied = "ok" => (ret # None /\ SameGeometry(bm, ret))

C1_Witness ==
    /\ pc = "done"
    /\ cycle = 1
    /\ applied = "ok"
    /\ RoundTripInput(bm)
    /\ Len(bm.faces) >= 2
    /\ \E k \in 1..Len(bm.faces) : Len(bm.faces[k]) = 4
    /\ \E k \in 1..Len(bm.faces) : Len(bm.faces[k]) = 3

\* enc is what the encoder returned for bm, and it has sections
EncoderOutput == pc # "src" /\ tamper = NoTamper /\ DOMAIN enc # {}

\* C2: in every encoder output faces.offsets has face_count + 1 entries,
\* starts at 0, never decreases, consecutive entries differ by the vertex
\* count of the face, and the last entry is the length of faces.vertices.
C2_CsrOffsets ==
    EncoderOutput =>
        LET face_count == enc["faces"]["count"]
            od == enc["faces"]["offsets"]["data"]
        IN  /\ face_count = Len(bm.faces)
            /\ Len(od) = 4 * (face_count + 1)
            /\ enc["faces"]["offsets"]["count"] = face_count + 1
            /\ U32At(od, 0) = 0
            /\ \A i \in 0..(face_count - 1) :
                   /\ U32At(od, i) <= U32At(od, i + 1)
                   /\ U32At(od, i + 1) - U32At(od, i) = Len(bm.faces[i + 1])
            /\ 4 * U32At(od, face_count)
                   = Len(enc["faces"]["vertices"]["data"])

C2_Witness ==
    /\ EncoderOutput
    /\ Len(bm.faces) = 3
    /\ Len(bm.faces[1]) = 3
    /\ Len(bm.faces[2]) = 4

\* the number of faces with the two ends of edge e next to each other
FacesOnEdge(e) ==
    Cardinality({k \in 1..Len(bm.faces) :
        \E j \in 1..Len(bm.faces[k]) :
            {bm.faces[k][j], bm.faces[k][(j % Len(bm.faces[k])) + 1]}
                = {e[1], e[2]}})

\* C3: the manifold flag of an edge is 1 exactly when two faces reference
\* the edge and 0 otherwise; every edge of a lone triangle has flag 0.
C3_ManifoldFlags ==
    EncoderOutput =>
        LET md == enc["edges"]["manifold"]["data"]
        IN  /\ Len(md) = Len(bm.edges)
            /\ \A i \in 1..Len(bm.edges) :
                   md[i] = IF FacesOnEdge(bm.edges[i]) = 2 THEN 1 ELSE 0
            /\ (Len(bm.faces) = 1 /\ Len(bm.faces[1]) = 3) =>
                   \A i \in 1..3 : md[i] = 0

C3_Witness ==
    /\ EncoderOutput
    /\ \E i \in 1..Len(bm.edges) : FacesOnEdge(bm.edges[i]) = 0
    /\ \E i \in 1..Len(bm.edges) : FacesOnEdge(bm.edges[i]) = 1
    /\ \E i \in 1..Len(bm.edges) : FacesOnEdge(bm.edges[i]) = 2
    /\ \E i \in 1..Len(bm.edges) : FacesOnEdge(bm.edges[i]) = 3

\* what decode_gltf_extension_to_bmesh hands to its caller
Returned(d) == d.bm

\* C4: decoding an input that lacks one of the four sections, or a section's
\* count, gives the caller no topology and a missing-section error it can
\* tell from the result for an empty input.
C4_MissingSectionRejected ==
    (pc = "decoded" /\ tamper.kind \in {"drop_section", "drop_count"}) =>
        /\ Returned(dec) = None
        /\ dec.failure \in {"missing_sections", "no_topology",
                            "invalid_structure"}
        /\ Returned(dec) # Returned(DecodeGltfExtensionToBmesh(EmptyDict))

\* the positions buffer is not 12 bytes for each vertex of the count
MalformedPositions ==
    /\ HasExplicitTopologyData(enc)
    /\ \A key \in Sections : "count" \in DOMAIN enc[key]
    /\ Len(enc["vertices"]["positions"]["data"])
           # 12 * enc["vertices"]["count"]

C6_CorruptEdgeSkipped ==
    (pc = "decoded" /\ tamper.kind = "bad_edge") =>
        /\ Returned(dec) # None
        /\ Len(dec.bm.edges) = enc["edges"]["count"] - 1
        /\ Len(dec.log) = 1

\* the vertex indices of encoded face i that name a vertex of the input
ResolvedVerts(i) ==
    LET od == enc["faces"]["offsets"]["data"]
        vertex_start == U32At(od, i)
        vertex_end == U32At(od, i + 1)
        entries == [j \in 1..(vertex_end - vertex_start) |->
                       U32At(enc["faces"]["vertices"]["data"],
                             vertex_start + j - 1)]
    IN  SelectSeq(entries, LAMBDA idx : idx < enc["vertices"]["count"])

DroppedFaces ==
    {i \in 0..(enc["faces"]["count"] - 1) : Len(ResolvedVerts(i)) < 3}

\* C7a: a face is created only when at least 3 of its vertices resolve.
FaceNeedsThreeVerts ==
    (pc = "decoded" /\ Returned(dec) # None) =>
        \A i \in DOMAIN dec.face_map : Len(ResolvedVerts(i)) >= 3

\* C7b: a face with fewer than 3 resolved vertices is reported as skipped.
DroppedFacesReported ==
    (pc = "decoded" /\ Returned(dec) # None) =>
        Len(dec.log) >= Cardinality(DroppedFaces)

\* C7c: the faces beside a dropped face are created as encoded.
OtherFacesUnaffected ==
    (pc = "decoded" /\ Returned(dec) # None
        /\ tamper.kind = "bad_face_vertex" /\ RoundTripInput(bm)
        /\ tamper.index \in DroppedFaces) =>
        \A i \in 0..(enc["faces"]["count"] - 1) :
            i # tamper.index =>
                /\ i \in DOMAIN dec.face_map
                /\ dec.bm.faces[dec.face_map[i] + 1] = bm.faces[i + 1]

\* C7: a face is created only when at least 3 of its vertices resolve; a
\* face with fewer is dropped and reported as skipped; the other faces of
\* the input are not affected.
C7_FaceThreshold ==
    /\ FaceNeedsThreeVerts
    /\ DroppedFacesReported
    /\ OtherFacesUnaffected

\* C8: when decode_into_mesh with an existing target mesh reports failure,
\* the target mesh is as it was before the call.
C8_ApplyAtomic ==
    (pc = "done" /\ prior = OldMesh /\ ret = None) => mesh = prior

\* C9 concerns the triangles of the fan: the positions of a triangle
TriangleCo(t) == [c \in 1..3 |-> LoopCo(bm, t.face, t.loops[c])]

NonDegenerate(t) ==
    LET co == TriangleCo(t)
    IN  /\ co[1] # co[2] /\ co[2] # co[3] /\ co[3] # co[1]
        /\ VecCross(VecSub(co[2], co[1]), VecSub(co[3], co[1])) # <<0, 0, 0>>

\* C9 as stated: every triangle the fan emits has three pairwise distinct
\* positions and a non-zero area, triangles passed through and fallback
\* fans included.
C9_AllTrianglesNonDegenerate ==
    pc = "fan" => \A j \in 1..Len(fan) : NonDegenerate(fan[j])

\* C9: every triangle that the robust fan of an n-gon emits has three
\* pairwise distinct positions and a non-zero area.
C9_RobustTrianglesNonDegenerate ==
    pc = "fan" =>
        \A j \in 1..Len(fan) :
            fan[j].via = "robust" => NonDegenerate(fan[j])

\* the robust fan of a quad kept one triangle and rejected the other
C9_Witness ==
    /\ pc = "fan"
    /\ \E k \in 1..Len(bm.faces) :
          /\ Len(bm.faces[k]) = 4
          /\ Cardinality({j \in 1..Len(fan) :
                 fan[j].face = k /\ fan[j].via = "robust"}) = 1

\* C10 as stated: the encoder output for a mesh without faces has the four
\* sections, each with count 0, and decoding it gives the empty result.
C10_EmptyCountsZero ==
    (pc # "src" /\ Len(bm.faces) = 0) =>
        /\ \A key \in Sections :
               key \in DOMAIN enc /\ enc[key]["count"] = 0
        /\ pc = "done" => ret = None

\* C10: the encoder output for a mesh without faces is empty, with no
\* section at all, and decoding it returns the empty result without running
\* the decoder or touching the target mesh.
C10_EmptyOutput ==
    (pc # "src" /\ Len(bm.faces) = 0) =>
        /\ DOMAIN enc = {}
        /\ pc = "done" => (ret = None /\ dec = NoDecode /\ mesh = prior)

C10_Witness ==
    /\ pc = "done"
    /\ Len(bm.faces) = 0
    /\ Len(bm.edges) = 1
    /\ prior = OldMesh
    /\ ret = None

\* the loops of the source, as (face, corner) pairs, both 0-based
SourceLoops ==
    {fc \in (0..(Len(bm.faces) - 1)) \X (0..(MaxVerts - 1)) :
        fc[2] < Len(bm.faces[fc[1] + 1])}

\* the global index of a loop: loops are numbered face by face
GlobalIndex(fc) ==
    Cardinality({o \in SourceLoops :
        o[1] < fc[1] \/ (o[1] = fc[1] /\ o[2] < fc[2])})

\* the two ends of the edge of a loop: its vertex and the next one of the face
LoopEdge(fc) ==
    LET f == bm.faces[fc[1] + 1]
    IN  <<f[fc[2] + 1], f[((fc[2] + 1) % Len(f)) + 1]>>

\* field c (0..6: vertex, edge, face, next, prev, radial_next, radial_prev)
\* of the encoded topology of the loop with global index g
Topology(g, c) == U32At(enc["loops"]["topology"]["data"], 7 * g + c)

\* the loops of other faces on the edge of loop fc
LoopsAcross(fc) ==
    {o \in SourceLoops :
        o[1] # fc[1] /\ {LoopEdge(o)[1], LoopEdge(o)[2]}
                          = {LoopEdge(fc)[1], LoopEdge(fc)[2]}}

\* C11: for every loop whose edge is shared by exactly two faces, the encoded
\* radial_next and radial_prev are equal and are the global index of the one
\* loop of the other face on that edge; radial_next taken twice leads back.
C11_RadialManifold ==
    EncoderOutput =>
        \A fc \in SourceLoops :
            FacesOnEdge(LoopEdge(fc)) = 2 =>
                /\ Topology(GlobalIndex(fc), 5) = Topology(GlobalIndex(fc), 6)
                /\ \E o \in LoopsAcross(fc) :
                       /\ LoopsAcross(fc) = {o}
                       /\ Topology(GlobalIndex(fc), 5) = GlobalIndex(o)
                /\ Topology(Topology(GlobalIndex(fc), 5), 5) = GlobalIndex(fc)

C11_Witness ==
    /\ EncoderOutput
    /\ Len(bm.faces) = 3
    /\ \E fc \in SourceLoops :
          /\ FacesOnEdge(LoopEdge(fc)) = 2
          /\ Topology(GlobalIndex(fc), 5) # GlobalIndex(fc)
    /\ \E fc \in SourceLoops : FacesOnEdge(LoopEdge(fc)) = 3

AllAttributes ==
    UNION {{enc[sec][key] : key \in DOMAIN enc[sec] \ {"count", "attributes"}}
              : sec \in DOMAIN enc}
        \cup (IF "loops" \in DOMAIN enc /\ "attributes" \in DOMAIN enc["loops"]
              THEN {enc["loops"]["attributes"][name] :
                       name \in DOMAIN enc["loops"]["attributes"]}
              ELSE {})

\* bytes of a glTF component type: FLOAT, UNSIGNED_INT, UNSIGNED_BYTE
SizeOfComponent(componentType) ==
    CASE componentType = 5126 -> 4
      [] componentType = 5125 -> 4
      [] componentType = 5121 -> 1

ArityOfType(type) ==
    CASE type = "SCALAR" -> 1
      [] type = "VEC2" -> 2
      [] type = "VEC3" -> 3

AttributeSized(a) ==
    Len(a.data) = a.count * SizeOfComponent(a.componentType)
                      * ArityOfType(a.type)

\* C13 as stated: every attribute the encoder emits carries a count, a
\* component type and a shape, and its byte length is count x size of the
\* component type x arity of the shape.
C13_AttributeSizes ==
    EncoderOutput =>
        \A a \in AllAttributes :
            /\ {"count", "componentType", "type"} \subseteq DOMAIN a
            /\ AttributeSized(a)

\* the adjacency and variable-length attributes that are present
VariableLengthAttributes ==
    {enc[path[1]][path[2]] :
        path \in {q \in {<<"vertices", "edges">>, <<"edges", "faces">>,
                         <<"faces", "vertices">>, <<"faces", "edges">>,
                         <<"faces", "loops">>} : q[2] \in DOMAIN enc[q[1]]}}

\* C13: every attribute carries a component type and a shape; the adjacency
\* and variable-length attributes carry no count and hold 4 bytes per entry;
\* every other attribute carries a count and has the byte length count x
\* size of the component type x arity of the shape: 12 per vertex, 8 and 1
\* per edge, 28 and 8 per loop, 4 per offset, 12 per face.
C13_CountedAttributeSizes ==
    EncoderOutput =>
        /\ \A a \in AllAttributes :
               /\ {"componentType", "type"} \subseteq DOMAIN a
               /\ "count" \in DOMAIN a <=> a \notin VariableLengthAttributes
               /\ "count" \in DOMAIN a => AttributeSized(a)
               /\ "count" \notin DOMAIN a =>
                      Len(a.data) % SizeOfComponent(a.componentType) = 0
        /\ Len(enc["vertices"]["positions"]["data"]) = 12 * Len(bm.verts)
        /\ Len(enc["edges"]["vertices"]["data"]) = 8 * Len(bm.edges)
        /\ Len(enc["edges"]["manifold"]["data"]) = Len(bm.edges)
        /\ Len(enc["loops"]["topology"]["data"])
               = 28 * Cardinality(SourceLoops)
        /\ \A name \in DOMAIN enc["loops"]["attributes"] :
               Len(enc["loops"]["attributes"][name]["data"])
                   = 8 * Cardinality(SourceLoops)
        /\ Len(enc["faces"]["offsets"]["data"]) = 4 * (Len(bm.faces) + 1)
        /\ Len(enc["faces"]["normals"]["data"]) = 12 * Len(bm.faces)
        /\ Len(enc["faces"]["vertices"]["data"]) = 4 * Cardinality(SourceLoops)

C13_Witness ==
    /\ EncoderOutput
    /\ Len(bm.uv) = 2
    /\ Len(bm.faces) = 2
    /\ Len(bm.faces[1]) # Len(bm.faces[2])
    /\ Cardinality(AllAttributes) >= 13

\* the UV that layer l of the decoded BMesh holds at corner p of its face k
\* (both 0-based), (0, 0) when the BMesh has no such layer
DecodedUV(l, k, p) ==
    IF "uv" \in DOMAIN dec.bm /\ l <= Len(dec.bm.uv)
    THEN dec.bm.uv[l][LoopBase(dec.bm.faces, k) + p + 1]
    ELSE <<0, 0>>

\* C14: after decode, the loop at position p of every decoded face carries,
\* for every encoded UV channel, the UV the encoder packed for position p of
\* the same source face, also when another face was dropped.
C14_UVByPosition ==
    (pc = "decoded" /\ Returned(dec) # None
        /\ tamper.kind \in {"none", "bad_face_vertex"}) =>
        \A i \in DOMAIN dec.face_map :
            dec.bm.faces[dec.face_map[i] + 1] = bm.faces[i + 1] =>
                \A l \in 1..Len(bm.uv), p \in 0..(Len(bm.faces[i + 1]) - 1) :
                    DecodedUV(l, dec.face_map[i], p)
                        = bm.uv[l][LoopBase(bm.faces, i) + p + 1]

\* the part of C14 that holds: with one UV channel and every face of an
\* unchanged encoder output decoded, each loop gets the UV of its own position.
UVSingleChannelAllFaces ==
    (pc = "decoded" /\ Returned(dec) # None /\ tamper = NoTamper
        /\ Len(bm.uv) = 1 /\ Len(dec.bm.faces) = Len(bm.faces)) =>
        \A i \in DOMAIN dec.face_map :
            \A p \in 0..(Len(bm.faces[i + 1]) - 1) :
                DecodedUV(1, dec.face_map[i], p)
                    = bm.uv[1][LoopBase(bm.faces, i) + p + 1]

\* C15: with preserve_manifold_info disabled, the manifold flag of every
\* encoded edge is 255, whatever the number of faces on the edge.
C15_ManifoldUnknownWhenDisabled ==
    (EncoderOutput /\ ~preserve_manifold_info) =>
        LET md == enc["edges"]["manifold"]["data"]
        IN  /\ Len(md) = Len(bm.edges)
            /\ \A i \in 1..Len(bm.edges) : md[i] = 255

C15_Witness ==
    /\ EncoderOutput
    /\ ~preserve_manifold_info
    /\ \E i \in 1..Len(bm.edges) : FacesOnEdge(bm.edges[i]) = 0
    /\ \E i \in 1..Len(bm.edges) : FacesOnEdge(bm.edges[i]) = 1
    /\ \E i \in 1..Len(bm.edges) : FacesOnEdge(bm.edges[i]) = 2
    /\ \E i \in 1..Len(bm.edges) : FacesOnEdge(bm.edges[i]) = 3
    /\ enc["edges"]["manifold"]["data"][1] = 255

\* the triangles the fan emitted for face k, in the order of the result
TrianglesOf(k) == SelectSeq(fan, LAMBDA t : t.face = k)

\* the anchor of the fan of face k: the first corner of its first triangle
FanAnchor(k) == TrianglesOf(k)[1].loops[1]

\* every candidate triangle of the fan of face k from corner a passes
\* validation
CandidatesValid(k, a) ==
    LET n == Len(bm.faces[k])
    IN  \A i \in 1..(n - 2) :
            ValidateTriangleGeometry(bm, k,
                <<a, (a + i) % n, (a + i + 1) % n>>)

\* C16: a face of 3 corners gives one triangle in corner order; an n-gon
\* whose candidate triangles all pass validation gives exactly n - 2
\* triangles (anchor, corner a+i, corner a+i+1), i = 1..n-2, indices cyclic
\* from the anchor position a; every triangle contains the anchor, every
\* other corner appears, and all carry the material index of the face.
C16_FanShape ==
    pc = "fan" =>
        \A k \in 1..Len(bm.faces) :
            LET n == Len(bm.faces[k])
                tris == TrianglesOf(k)
            IN  /\ n = 3 =>
                       /\ Len(tris) = 1
                       /\ tris[1].loops = <<0, 1, 2>>
                       /\ tris[1].material = bm.material_index[k]
                /\ (n > 3 /\ CandidatesValid(k, FanAnchor(k))) =>
                       LET a == FanAnchor(k)
                       IN  /\ Len(tris) = n - 2
                           /\ \A i \in 1..(n - 2) :
                                  /\ tris[i].loops =
                                         <<a, (a + i) % n, (a + i + 1) % n>>
                                  /\ tris[i].material = bm.material_index[k]
                                  /\ \E c \in 1..3 : tris[i].loops[c] = a
                           /\ \A c \in (0..(n - 1)) \ {a} :
                                  \E i \in 1..(n - 2), j \in 2..3 :
                                      tris[i].loops[j] = c

\* a triangle and a quad of different materials, the quad fanned from a
\* corner other than its first
C16_Witness ==
    /\ pc = "fan"
    /\ \E k \in 1..Len(bm.faces) : Len(bm.faces[k]) = 3
    /\ \E k \in 1..Len(bm.faces) :
          /\ Len(bm.faces[k]) = 4
          /\ bm.material_index[k] = 1
          /\ FanAnchor(k) # 0
          /\ CandidatesValid(k, FanAnchor(k))
          /\ Len(TrianglesOf(k)) = 2
          /\ TrianglesOf(k)[1].via = "robust"

\* the inputs of C17: None, an empty dict, a dict without the required
\* sections, or data whose sections are all None, empty or of the wrong
\* shape, or whose vertices, edges or faces section is so
MalformedInput ==
    \/ tamper.kind \in {"error_case", "drop_section"}
    \/ /\ tamper.kind = "malformed"
       /\ tamper.keys \cap CountCheckedSections # {}

Alone(call) ==
    IF call.op = "encode"
    THEN EncodeBmeshToGltfExtension(call.input, preserve_manifold_info)
    ELSE DecodeGltfExtensionToBmesh(call.input).bm

\* C18: of two encode or decode calls on independent meshes whose steps
\* interleave in any order, each returns what it returns when run alone.
C18_CallsIndependent ==
    pc = "calls" =>
        \A c \in 1..2 : calls[c].done => calls[c].result = Alone(calls[c])

\* an encode call and a decode call on different meshes, both returned,
\* each having taken steps while the other was under way
C18_Witness ==
    /\ pc = "calls"
    /\ calls[1].done /\ calls[2].done
    /\ calls[1].overlapped /\ calls[2].overlapped
    /\ calls[1].op # calls[2].op
    /\ calls[1].bm # calls[2].bm
    /\ calls[1].result # None /\ calls[2].result # None
    /\ calls[1].result # EmptyDict /\ calls[2].result # EmptyDict

\* the encoding the record of handles was made from, and its decoding
RawComponentSet == EncodeBmeshToGltfExtension(bm, preserve_manifold_info)
RawDecoded == DecodeGltfExtensionToBmesh(RawComponentSet)

\* every attribute of the encoding is a handle in the record, and the
\* resolver returns for it the bytes the attribute held
HandlesResolve ==
    tamper.kind = "buffer_views" =>
        \A i \in 1..Len(ViewPaths) :
            HasPath(RawComponentSet, ViewPaths[i]) =>
                /\ HasPath(enc, ViewPaths[i])
                /\ Resolve(gltf, AtPath(enc, ViewPaths[i]))
                       = AtPath(RawComponentSet, ViewPaths[i]).data

\* C19: decoding the record of handles made by create_buffer_views, with a
\* resolver for the handles, reconstructs the vertices and faces that
\* decoding the raw component set reconstructs.
C19_HandleFormDecodes ==
    (pc = "decoded" /\ tamper.kind = "buffer_views"
        /\ RawDecoded.bm # None) =>
        /\ dec.bm # None
        /\ dec.bm.verts = RawDecoded.bm.verts
        /\ dec.bm.faces = RawDecoded.bm.faces

RECURSIVE NextTimes(_, _)
NextTimes(g, k) == IF k = 0 THEN g ELSE NextTimes(Topology(g, 3), k - 1)

\* C21: in every encoder output the next links of the loops of a face of n
\* corners form one cycle of length exactly n that stays in the face, and
\* prev is the inverse of next.
C21_FaceCycle ==
    EncoderOutput =>
        \A fc \in SourceLoops :
            LET g == GlobalIndex(fc)
                n == Len(bm.faces[fc[1] + 1])
            IN  /\ NextTimes(g, n) = g
                /\ \A k \in 1..(n - 1) : NextTimes(g, k) # g
                /\ \A k \in 0..n :
                       /\ NextTimes(g, k) < enc["loops"]["count"]
                       /\ Topology(NextTimes(g, k), 2) = fc[1]
                /\ {NextTimes(g, k) : k \in 1..n}
                       = {GlobalIndex(o) : o \in {q \in SourceLoops :
                                                     q[1] = fc[1]}}
                /\ Topology(Topology(g, 3), 4) = g
                /\ Topology(Topology(g, 4), 3) = g

\* a triangle and a quad, the second face starting after the first
C21_Witness ==
    /\ EncoderOutput
    /\ Len(bm.faces) >= 2
    /\ Len(bm.faces[1]) # Len(bm.faces[2])
    /\ Topology(enc["loops"]["count"] - 1, 3) = Len(bm.faces[1])

\* the vertex pair of encoded edge i in the data handed to the decoder
EncodedPair(i) ==
    <<U32At(enc["edges"]["vertices"]["data"], 2 * i),
      U32At(enc["edges"]["vertices"]["data"], 2 * i + 1)>>

\* C22: when the edge section or a face brings a vertex pair that has an
\* edge already, the decoder maps the encoded edge index to that edge and
\* goes on: the decode succeeds, no two decoded edges join the same pair of
\* vertices, and every encoded edge index maps to an edge on its own vertex
\* pair.
C22_DuplicateEdgesReused ==
    (pc = "decoded" /\ tamper.kind \in {"none", "duplicate_edge"}
        /\ Truthy(enc)) =>
        /\ dec.bm # None
        /\ \A k \in 1..Len(dec.bm.edges), j \in 1..Len(dec.bm.edges) :
               k # j => ~SamePair(dec.bm.edges[k], dec.bm.edges[j][1],
                                  dec.bm.edges[j][2])
        /\ DOMAIN dec.edge_map = 0..(enc["edges"]["count"] - 1)
        /\ \A i \in DOMAIN dec.edge_map :
               SamePair(dec.bm.edges[dec.edge_map[i] + 1],
                        EncodedPair(i)[1], EncodedPair(i)[2])
        /\ tamper.kind = "duplicate_edge" =>
               dec.edge_map[tamper.index] = dec.edge_map[tamper.of]

\* a later edge of the section repeats, reversed, the pair of an earlier
\* edge that bounds the face; its own pair is implied by the face
C22_Witness ==
    /\ pc = "decoded"
    /\ tamper.kind = "duplicate_edge"
    /\ tamper.of < tamper.index
    /\ EncodedPair(tamper.index)[1] = EncodedPair(tamper.of)[2]
    /\ Len(bm.faces) = 1
    /\ FacesOnEdge(bm.edges[tamper.index + 1]) = 1
    /\ dec.bm # None
    /\ Len(dec.bm.edges) = Len(bm.edges)

\* the robust fan of face k yields no triangle, whichever corner the
\* scoring picks as the anchor
RobustFanEmpty(k) ==
    \/ ~ValidateFaceGeometry(bm, k)
    \/ \A a \in 0..(Len(bm.faces[k]) - 1) : \A i \in 1..(Len(bm.faces[k]) - 2) :
           ~ValidateTriangleGeometry(bm, k,
               <<a, (a + i) % Len(bm.faces[k]),
                 (a + i + 1) % Len(bm.faces[k])>>)

\* C23: an n-gon (n > 3) whose robust fan yields no valid triangle is
\* emitted as the fan from its first corner, exactly n - 2 triangles
\* (corner 0, corner i-1, corner i), i = 2..n-1, without validation of
\* their area; no n-gon is left without triangles.
C23_FanFallback ==
    pc = "fan" =>
        \A k \in 1..Len(bm.faces) :
            LET n == Len(bm.faces[k])
                tris == TrianglesOf(k)
            IN  n > 3 =>
                    /\ Len(tris) >= 1
                    /\ (RobustFanEmpty(k) \/ tris[1].via = "fallback") =>
                           /\ Len(tris) = n - 2
                           /\ \A i \in 2..(n - 1) :
                                  /\ tris[i - 1].loops = <<0, i - 1, i>>
                                  /\ tris[i - 1].via = "fallback"
                                  /\ tris[i - 1].material =
                                         bm.material_index[k]

\* a quad that fails the validation of its geometry and whose fallback fan
\* holds a triangle without area
C23_Witness ==
    /\ pc = "fan"
    /\ \E k \in 1..Len(bm.faces) :
          /\ Len(bm.faces[k]) = 4
          /\ RobustFanEmpty(k)
          /\ Len(TrianglesOf(k)) = 2
          /\ TrianglesOf(k)[2].loops = <<0, 2, 3>>
          /\ ~NonDegenerate(TrianglesOf(k)[1])

\* the attributes of extension data d that have data, in the order of the
\* calls of create_buffer_view
WithData(d) ==
    SelectSeq(ViewPaths,
              LAMBDA path : /\ HasPath(d, path)
                            /\ "data" \in DOMAIN AtPath(d, path)
                            /\ AtPath(d, path).data # <<>>)

\* the record made from extension data d holds, for its j-th attribute with
\* data, the handle base + j - 1, whose buffer view has the length of the
\* data and covers bytes equal to the data; attributes without data have no
\* handle
ViewsHold(d, record, base) ==
    /\ \A j \in 1..Len(WithData(d)) :
           LET path == WithData(d)[j]
               data == AtPath(d, path).data
           IN  /\ HasPath(record, path)
               /\ AtPath(record, path) = PyInt(base + j - 1)
               /\ base + j <= Len(gltf.bufferViews)
               /\ gltf.bufferViews[base + j].byteLength = Len(data)
               /\ Resolve(gltf, PyInt(base + j - 1)) = data
    /\ \A i \in 1..Len(ViewPaths) :
           HasPath(record, ViewPaths[i]) =>
               \E j \in 1..Len(WithData(d)) : WithData(d)[j] = ViewPaths[i]

\* C24: after one or two calls of create_buffer_views on the same buffer,
\* every buffer view starts at a multiple of 4 at or after the end of every
\* earlier view and of the bytes the buffer held before, has the length of
\* its attribute's data, has its index as handle and covers bytes equal to
\* the data (those of the first call still so after the second); the bytes
\* held before are unchanged; attributes with missing or empty data create
\* no view and add no bytes.
C24_BufferStoreAppendOnly ==
    tamper.kind = "buffer_views" =>
        LET views == gltf.bufferViews
            first == WithData(RawComponentSet)
            further == IF again.encoded THEN WithData(again.enc) ELSE <<>>
        IN  /\ Len(views) = Len(first) + Len(further)
            /\ SubSeq(gltf.buffer0, 1, Len(tamper.before)) = tamper.before
            /\ \A v \in 1..Len(views) :
                   /\ views[v].byteOffset % 4 = 0
                   /\ views[v].byteOffset >= Len(tamper.before)
                   /\ views[v].byteLength > 0
                   /\ views[v].byteOffset + views[v].byteLength
                          <= Len(gltf.buffer0)
                   /\ \A u \in 1..(v - 1) :
                          /\ views[u].byteOffset < views[v].byteOffset
                          /\ views[u].byteOffset + views[u].byteLength
                                 <= views[v].byteOffset
            /\ Len(gltf.buffer0) =
                   IF views = <<>> THEN Len(tamper.before)
                   ELSE views[Len(views)].byteOffset
                            + views[Len(views)].byteLength
            /\ ViewsHold(RawComponentSet, enc, 0)
            /\ again.encoded => ViewsHold(again.enc, again.ret, Len(first))

\* a second call, one of whose attributes has empty or missing data, on a
\* buffer that held five bytes before the first call and whose first call
\* had to pad between views
C24_Witness ==
    /\ tamper.kind = "buffer_views"
    /\ tamper.before = <<1, 2, 3, 4, 5>>
    /\ again.encoded
    /\ Len(WithData(again.enc)) = Len(WithData(RawComponentSet)) - 1
    /\ Len(WithData(again.enc)) >= 2
    /\ \E v \in 2..Len(gltf.bufferViews) :
           gltf.bufferViews[v].byteOffset
               > gltf.bufferViews[v - 1].byteOffset
                     + gltf.bufferViews[v - 1].byteLength
\* C25: when the edges section carries manifold flags, and when it carries
\* smooth flags, the edge decoded for encoded edge index i has flag i of
\* each applied to it.
C25_EdgeFlagsApplied ==
    (pc = "decoded" /\ dec.bm # None /\ "edges" \in DOMAIN enc) =>
        \A i \in DOMAIN dec.edge_map :
            LET e == dec.edge_map[i] + 1
            IN  /\ "manifold" \in DOMAIN enc["edges"] =>
                       /\ "edge_manifold" \in DOMAIN dec.bm
                       /\ dec.bm.edge_manifold[e]
                              = enc["edges"]["manifold"]["data"][i + 1]
                /\ "attributes" \in DOMAIN enc["edges"] =>
                       dec.bm.edge_smooth[e] =
                           IF enc["edges"]["attributes"]["_SMOOTH"]["data"]
                                  [i + 1] # 0
                           THEN "True" ELSE "False"
\* C26: the faces decode_implicit_triangle_fan returns for the first-corner
\* fan of a list of polygons are the polygons, in order and each with its
\* vertex order.
C26_FanDecodesToPolygons ==
    pc = "faces" => implicit.faces = implicit.polygons
\* C27: in every encoder output every edge vertex index and face vertex
\* index is below vertices.count, the two vertex indices of an edge differ,
\* and of every loop the vertex is below vertices.count, the edge below
\* edges.count, the face below faces.count, and next, prev, radial_next and
\* radial_prev below loops.count.
C27_ReferentialIntegrity ==
    EncoderOutput =>
        LET nv == enc["vertices"]["count"]
        IN  /\ "edges" \in DOMAIN enc =>
                   \A i \in 0..(enc["edges"]["count"] - 1) :
                       LET ev == enc["edges"]["vertices"]["data"]
                       IN  /\ U32At(ev, 2 * i) < nv
                           /\ U32At(ev, 2 * i + 1) < nv
                           /\ U32At(ev, 2 * i) # U32At(ev, 2 * i + 1)
            /\ "faces" \in DOMAIN enc =>
                   LET fv == enc["faces"]["vertices"]["data"]
                   IN  /\ Len(fv) = 4 * Cardinality(SourceLoops)
                       /\ \A k \in 0..(Cardinality(SourceLoops) - 1) :
                              U32At(fv, k) < nv
            /\ "loops" \in DOMAIN enc =>
                   /\ Len(enc["loops"]["topology"]["data"])
                          = 28 * enc["loops"]["count"]
                   /\ \A g \in 0..(enc["loops"]["count"] - 1) :
                          /\ Topology(g, 0) < nv
                          /\ Topology(g, 1) < enc["edges"]["count"]
                          /\ Topology(g, 2) < enc["faces"]["count"]
                          /\ \A c \in 3..6 :
                                 Topology(g, c) < enc["loops"]["count"]
            /\ Len(bm.faces) > 0 =>
                   {"edges", "faces", "loops"} \subseteq DOMAIN enc

\* the output for three faces and a wire edge, with a loop whose radial
\* link leads to another loop
C27_Witness ==
    /\ EncoderOutput
    /\ Len(bm.faces) = 3
    /\ enc["edges"]["count"] > Cardinality({LoopEdge(fc) : fc \in SourceLoops})
    /\ enc["loops"]["count"] >= 10
    /\ \E g \in 0..(enc["loops"]["count"] - 1) : Topology(g, 5) # g
\* C28: in every encoder output loops.count is offsets[face_count]; the loop
\* with global index k has face field i exactly when offsets[i] <= k <
\* offsets[i+1]; its vertex field is faces.vertices[k]; and faces.loops
\* lists 0, 1, ..., loops.count - 1 in order.
C28_LoopNumbering ==
    (EncoderOutput /\ Len(bm.faces) > 0) =>
        LET face_count == enc["faces"]["count"]
            loop_count == enc["loops"]["count"]
            od == enc["faces"]["offsets"]["data"]
            fv == enc["faces"]["vertices"]["data"]
            fl == enc["faces"]["loops"]["data"]
        IN  /\ loop_count = U32At(od, face_count)
            /\ Len(enc["loops"]["topology"]["data"]) = 28 * loop_count
            /\ Len(fv) = 4 * loop_count
            /\ Len(fl) = 4 * loop_count
            /\ \A k \in 0..(loop_count - 1) :
                   /\ \A i \in 0..(face_count - 1) :
                          Topology(k, 2) = i
                              <=> (U32At(od, i) <= k /\ k < U32At(od, i + 1))
                   /\ Topology(k, 0) = U32At(fv, k)
                   /\ U32At(fl, k) = k

\* the output for a quad, a triangle and a quad, in that order
C28_Witness ==
    /\ EncoderOutput
    /\ Len(bm.faces) = 3
    /\ Len(bm.faces[1]) = 4
    /\ Len(bm.faces[2]) = 3
    /\ enc["loops"]["count"] = 11
    /\ Topology(7, 2) = 2
\* what json_dict has under extensions.VRMC_vrm.vrm_addon_extension:
\* <<>> when there is no such dict, else <<that dict>>
AddonExtension(json_dict) ==
    LET extensions_dict == Get(json_dict, "extensions", None)
        vrm1_dict == IF IsDict(extensions_dict)
                     THEN Get(extensions_dict, "VRMC_vrm", None) ELSE None
        vrm_addon_extension ==
            IF IsDict(vrm1_dict)
            THEN Get(vrm1_dict, "vrm_addon_extension", None) ELSE None
    IN  IF IsDict(vrm_addon_extension) THEN <<vrm_addon_extension>> ELSE <<>>

\* json_dict carries bmesh_encoding data
CarriesData(json_dict) ==
    /\ AddonExtension(json_dict) # <<>>
    /\ "bmesh_encoding" \in DOMAIN AddonExtension(json_dict)[1]
    /\ AddonExtension(json_dict)[1]["bmesh_encoding"] # None

\* the armature name json_dict resolves to: <<>> when it resolves to none
ResolvedName(json_dict) ==
    LET name == FindArmatureNameVrm1(json_dict["extensions"]["VRMC_vrm"],
                                     json_dict)
    IN  IF name = <<"">> THEN <<>> ELSE name

\* C29: after preprocess_gltf_json on a dictionary that carries
\* bmesh_encoding data, the dictionary returned has no bmesh_encoding under
\* extensions.VRMC_vrm.vrm_addon_extension, the data is in the store under
\* the armature name, and the dictionary handed in is as it was.
C29_CleanedCopy ==
    (pc = "preprocessor" /\ preprocessor.last = "preprocess") =>
        /\ preprocessor.json_dict = preprocessor.given
        /\ CarriesData(preprocessor.given) =>
               /\ "bmesh_encoding" \notin
                      DOMAIN AddonExtension(preprocessor.cleaned_json)[1]
               /\ ResolvedName(preprocessor.given) # <<>> =>
                      GetExtractedData(preprocessor.extracted_data,
                                       ResolvedName(preprocessor.given)[1])
                          = AddonExtension(preprocessor.given)[1]
                                ["bmesh_encoding"]

\* the names asked for
ArmatureNames ==
    {"Armature", "Other", "", "Armature_0", "Armature_1", "Armature_2"}

\* C30: after any sequence of preprocess_gltf_json and clear_extracted_data
\* calls, get_extracted_data(name) returns data exactly when the last call
\* was a preprocess_gltf_json of a dictionary that carries bmesh_encoding
\* data and resolves to the armature name `name`, and the data is that of
\* this last dictionary.
C30_StoreReflectsLastCall ==
    pc = "preprocessor" =>
        \A name \in ArmatureNames :
            LET data == GetExtractedData(preprocessor.extracted_data, name)
                last_carries ==
                    /\ preprocessor.last = "preprocess"
                    /\ CarriesData(preprocessor.given)
                    /\ ResolvedName(preprocessor.given) = <<name>>
            IN  /\ data # None <=> last_carries
                /\ last_carries =>
                       data = AddonExtension(preprocessor.given)[1]
                                  ["bmesh_encoding"]

\* a second preprocess call, of a dictionary without data, after a first
\* one whose data was stored: the store is empty
C30_Witness ==
    /\ pc = "preprocessor"
    /\ preprocessor.made = 2
    /\ preprocessor.last = "preprocess"
    /\ ~CarriesData(preprocessor.given)
    /\ preprocessor.extracted_data = EmptyDict
====
